---- MODULE Spec2Model ----
(***************************************************************************)
(* State synchronisation engine of formless: the custom-store adapter      *)
(* (rhfAdapter.ts; formikAdapter.ts is the same text with defaultValues    *)
(* renamed initialValues) and the TanStack adapter (tanstackAdapter), both *)
(* driven by the same sequence of Adapter Contract calls.                  *)
(*                                                                         *)
(* A dotted path is modelled by the key it names; the engine model uses    *)
(* the single-segment paths "name" (a scalar field) and "items" (an array  *)
(* field).  An identifier `ufa_n` is modelled by the number n.             *)
(* Promise continuations are entries of a FIFO queue per engine: a         *)
(* continuation that awaits again re-enters the queue at its tail.         *)
(***************************************************************************)
EXTENDS Integers, Sequences, FiniteSets, TLC

\* ------------------------------------------------------------------ bounds
MaxLen == 3          \* longest array the field-array mutators build
MaxPast == 1         \* how far past the end an index argument may point
MaxId == 4           \* identifiers generated per behaviour
MaxPending == 2      \* promise continuations in flight per engine
MaxSubmits == 2      \* submit handler invocations per behaviour
MaxReentry == 2      \* mutations a subscriber performs from inside callbacks

\* ------------------------------------------------------------------- data
Paths == {"name", "items"}
ArrayPath == "items"
Modes == {"onSubmit", "onBlur", "onChange", "onTouched", "all"}
NameVals == {"", "x"}
SubIds == {"obs", "mut"}
\* a subscriber whose callback calls its own unsubscribe function
QuitId == "quit"

\* config.defaultValues handed to createForm
DefaultValues == [p \in Paths |-> IF p = "name" THEN "" ELSE <<>>]

\* undefined, as the value of FieldMeta.error
NoError == [message |-> "", type |-> "undefined"]
ValidationErr(m) == [message |-> m, type |-> "validation"]
ManualErr(m) == [message |-> m, type |-> "manual"]

Min(S) == CHOOSE x \in S : \A y \in S : x <= y
Range(s) == {s[i] : i \in DOMAIN s}
EmptyMap == [i \in {} |-> 0]

\* ---------------------------------------------------------------- path.ts
getByPath(obj, path) == obj[path]
setByPath(obj, path, value) == [obj EXCEPT ![path] = value]

\* -------------------------------------------------------------- errors.ts
\* error: a bare string is modelled by type "string", undefined by NoError
normalizeFieldError(error) ==
  IF error = NoError \/ (error.type = "string" /\ error.message = "")
  THEN NoError
  ELSE IF error.type = "string" THEN ManualErr(error.message)
  ELSE error

\* ------------------------------------------------------- validator (schema)
\* SchemaBridge.validate of the configured schema: `name` is required and
\* `items` holds at most two elements.  The result is the list of
\* {path, message} entries, as a map from the failing paths to messages.
SchemaErrors(values) ==
  [p \in {q \in Paths : \/ q = "name" /\ values["name"] = ""
                        \/ q = "items" /\ Len(values["items"]) > 2}
     |-> IF p = "name" THEN "required" ELSE "tooMany"]

\* ------------------------------------------------------------------ id.ts
\* generateId: `ufa_${++counter}` on the module-level counter
generateId(ctr) == ctr + 1

\* ===================================================== rhfAdapter (RHFEngine)
\* FieldMeta objects live in a heap so that a continuation keeps the object
\* it captured: fieldMeta maps a path to an object (0: no entry).
MaxObj == Cardinality(Paths) + MaxPending
DefaultMeta == [isTouched |-> FALSE, isDirty |-> FALSE, error |-> NoError]

\* one promise continuation; every kind uses the same record shape
Cont(k, path, err, obj, errs, ok, run) ==
  [k |-> k, path |-> path, err |-> err, obj |-> obj, errs |-> errs,
   ok |-> ok, run |-> run]
NoRun == [throws |-> FALSE, hasInv |-> FALSE, valid |-> 0, invalid |-> 0]
NoErrs == [p \in {} |-> ""]

\* a finished run of a submit handler, as the application saw it
NoSubmit == [done |-> FALSE, ok |-> FALSE, throws |-> FALSE, hasInv |-> FALSE,
             valid |-> 0, invalid |-> 0, escaped |-> FALSE]

\* createForm
RhfCreateForm(mode, hasSchema) ==
  [values |-> DefaultValues,
   defaultValues |-> DefaultValues,
   fieldMeta |-> [p \in Paths |-> 0],
   heap |-> [o \in 1..MaxObj |-> DefaultMeta],
   isSubmitting |-> FALSE,
   isValidating |-> FALSE,
   submitCount |-> 0,
   subscribers |-> <<>>,
   schema |-> hasSchema,
   mode |-> mode,
   fieldIds |-> [has |-> FALSE, map |-> EmptyMap],
   \* the Map a field-array handle captured (const idMap) before the engine
   \* dropped it from fieldIds, where the application still has that handle
   held |-> [has |-> FALSE, map |-> EmptyMap],
   queue |-> <<>>,
   \* what the application observed during the last call
   calls |-> 0, nested |-> 0, depth |-> 0, partial |-> FALSE, ran |-> FALSE,
   seen |-> {},
   budget |-> 0, last |-> NoSubmit]

\* objects referenced by the map or by a pending continuation
RhfLive(e) ==
  {e.fieldMeta[p] : p \in Paths} \cup {e.queue[i].obj : i \in DOMAIN e.queue}

\* `engine.fieldMeta.get(path) || { isTouched: false, isDirty: false, ... }`
\* followed by `engine.fieldMeta.set(path, meta)`: the object of path, a new
\* one when the map has none
RhfMetaOf(e, path) ==
  IF e.fieldMeta[path] # 0 THEN e.fieldMeta[path]
  ELSE Min((1..MaxObj) \ RhfLive(e))

RhfWithMeta(e, path) ==
  LET o == RhfMetaOf(e, path)
  IN IF e.fieldMeta[path] # 0 THEN e
     ELSE [e EXCEPT !.fieldMeta[path] = o, !.heap[o] = DefaultMeta]

\* objects nothing refers to any more are dropped
RhfCollect(e) ==
  [e EXCEPT !.heap = [o \in 1..MaxObj |->
                        IF o \in RhfLive(e) THEN e.heap[o] ELSE DefaultMeta]]

\* validateField: the schema runs at once, on the values of the call
RhfValidateField(e, path) ==
  IF ~e.schema THEN NoError
  ELSE IF path \in DOMAIN SchemaErrors(e.values)
       THEN ValidationErr(SchemaErrors(e.values)[path])
       ELSE NoError

\* validateAllFields
RhfValidateAllFields(e) ==
  IF ~e.schema THEN NoErrs ELSE SchemaErrors(e.values)

hasErrors(e) == \E p \in Paths :
  e.fieldMeta[p] # 0 /\ e.heap[e.fieldMeta[p]].error # NoError

hasDirtyFields(e) == \E p \in Paths :
  e.fieldMeta[p] # 0 /\ e.heap[e.fieldMeta[p]].isDirty

\* setError up to its notification
RhfSetErrorWrite(e, path, error) ==
  LET normalized == normalizeFieldError(error)
      e1 == RhfWithMeta(e, path)
  IN IF normalized = NoError THEN e
     ELSE [e1 EXCEPT !.heap[e1.fieldMeta[path]].error = normalized]

\* Set.prototype.forEach after the callback of the i-th member of `old`
\* has left the members `new`: a forEach that takes the following index
\* whatever the callback deleted
NextMemberByIndex(old, new, i) == i + 1

\* Set.prototype.forEach after the callback of the i-th member of `old` has
\* left the members `new`: the members visited so far that are still there
\* are skipped, the next one in insertion order is visited
NextMember(old, new, i) ==
  1 + Cardinality({j \in 1..Len(new) : \E k \in 1..i : old[k] = new[j]})

\* notifySubscribers: engine.subscribers.forEach(callback => callback()).
\* The subscriber "obs" only reads; the subscriber "mut" calls
\* setError(engine, 'name', 'bad') from inside its callback while its
\* budget lasts, and that call notifies in turn; the subscriber "quit" calls
\* the function subscribe returned to it.
RECURSIVE RhfNotifyFrom(_, _, _)
RhfNotifyFrom(e, i, d) ==
  IF i > Len(e.subscribers) THEN e
  ELSE LET s == e.subscribers[i]
           e1 == [e EXCEPT !.calls = @ + 1,
                           !.seen = @ \cup {s},
                           !.nested = @ + (IF d > 0 /\ s = "mut" THEN 1 ELSE 0),
                           !.depth = IF d + 1 > @ THEN d + 1 ELSE @]
           e2 == IF s = "mut" /\ e1.budget > 0
                 THEN RhfNotifyFrom(
                        RhfSetErrorWrite([e1 EXCEPT !.budget = @ - 1], "name",
                                         [message |-> "bad", type |-> "string"]),
                        1, d + 1)
                 ELSE IF s = QuitId
                 THEN [e1 EXCEPT !.subscribers = SelectSeq(@, LAMBDA x : x # s)]
                 ELSE e1
       IN RhfNotifyFrom(e2, NextMember(e.subscribers, e2.subscribers, i), d)

notifySubscribers(e) == RhfNotifyFrom(e, 1, 0)

\* the application starts a new call: the observation counters restart
Observe(e) ==
  [e EXCEPT !.calls = 0, !.nested = 0, !.depth = 0, !.partial = FALSE,
            !.ran = FALSE, !.seen = {}]

\* getState
RhfGetState(e) ==
  [values |-> e.values,
   errors |-> [p \in {q \in Paths : e.fieldMeta[q] # 0
                        /\ e.heap[e.fieldMeta[q]].error # NoError}
                 |-> e.heap[e.fieldMeta[p]].error],
   touched |-> {p \in Paths : e.fieldMeta[p] # 0 /\ e.heap[e.fieldMeta[p]].isTouched},
   dirty |-> {p \in Paths : e.fieldMeta[p] # 0 /\ e.heap[e.fieldMeta[p]].isDirty},
   isSubmitting |-> e.isSubmitting,
   isValidating |-> e.isValidating,
   isValid |-> ~hasErrors(e),
   isDirty |-> hasDirtyFields(e),
   submitCount |-> e.submitCount]

\* getFieldState
RhfGetFieldState(e, path) ==
  LET meta == IF e.fieldMeta[path] # 0 THEN e.heap[e.fieldMeta[path]]
              ELSE DefaultMeta
  IN [isTouched |-> meta.isTouched, isDirty |-> meta.isDirty,
      error |-> meta.error, isInvalid |-> meta.error # NoError]

\* getErrors
RhfGetErrors(e) == RhfGetState(e).errors

\* what a call of getState, getValue, getValues, getError, getErrors or
\* getFieldState leaves of the engine
RhfRead(e) == e

\* `value !== defaultValue`: a scalar differs by value, an array or object
\* differs unless it is the default's own reference (sameRef)
RhfDiffers(value, sameRef, defaultValue, path) ==
  IF path = ArrayPath THEN ~sameRef ELSE value # defaultValue

\* setValue
RhfSetValue(e, path, value, sameRef, shouldValidate, shouldDirty) ==
  LET e1 == RhfWithMeta([e EXCEPT !.values = setByPath(@, path, value)], path)
      o == e1.fieldMeta[path]
      e2 == IF shouldDirty
            THEN [e1 EXCEPT !.heap[o].isDirty =
                    RhfDiffers(value, sameRef, getByPath(e.defaultValues, path), path)]
            ELSE e1
  IN IF shouldValidate
     THEN [e2 EXCEPT !.ran = e.schema, !.queue = Append(@,
             Cont("field", path, RhfValidateField(e2, path), o, NoErrs, FALSE, NoRun))]
     ELSE notifySubscribers(e2)

\* trigger that treats a list of paths like a call without paths
RhfTriggerStartWhole(e, paths, k) ==
  LET e1 == notifySubscribers([e EXCEPT !.isValidating = TRUE])
  IN [e1 EXCEPT !.ran = e.schema, !.queue = Append(@,
        Cont(k, "", NoError, 0, RhfValidateAllFields(e1), FALSE, NoRun))]

\* trigger, up to its first await
RhfTriggerStart(e, paths, k) ==
  LET e1 == notifySubscribers([e EXCEPT !.isValidating = TRUE])
      n == Len(paths)
  IN IF n > 0
     THEN [e1 EXCEPT !.ran = e.schema, !.queue = @ \o
             [i \in 1..n |->
                Cont(IF i = n THEN "trigLast" ELSE "trigPath", paths[i],
                     RhfValidateField(e1, paths[i]), 0, NoErrs,
                     \* results.every(Boolean) over the mappers' `return !error`
                     \A j \in 1..i : RhfValidateField(e1, paths[j]) = NoError,
                     NoRun)]]
     ELSE [e1 EXCEPT !.ran = e.schema, !.queue = Append(@,
             Cont(k, "", NoError, 0, RhfValidateAllFields(e1), FALSE, NoRun))]

\* setValues: keys lists the keys of the partial in Object.entries order
RECURSIVE RhfSetValuesFrom(_, _, _, _)
RhfSetValuesFrom(e, keys, vals, i) ==
  IF i > Len(keys) THEN e
  ELSE LET e1 == RhfSetValue(e, keys[i], vals[keys[i]], FALSE, FALSE, TRUE)
           e2 == IF i < Len(keys) /\ Len(e1.subscribers) > 0
                 THEN [e1 EXCEPT !.partial = TRUE] ELSE e1
       IN RhfSetValuesFrom(e2, keys, vals, i + 1)

RhfSetValues(e, keys, vals, shouldValidate) ==
  LET e1 == RhfSetValuesFrom(e, keys, vals, 1)
  IN IF shouldValidate THEN RhfTriggerStart(e1, <<>>, "trigAll") ELSE e1

\* setError
RhfSetError(e, path, error) ==
  IF normalizeFieldError(error) = NoError THEN e
  ELSE notifySubscribers(RhfSetErrorWrite(e, path, error))

\* clearErrors: paths is the set of the listed paths, every path when the
\* argument is left out
RhfClearErrors(e, paths) ==
  notifySubscribers(
    [e EXCEPT !.heap = [o \in 1..MaxObj |->
       IF \E p \in paths : e.fieldMeta[p] = o
       THEN [e.heap[o] EXCEPT !.error = NoError] ELSE e.heap[o]]])

\* register(path).onBlur that validates in every mode
RhfOnBlurAlways(e, path) ==
  LET e1 == RhfWithMeta(e, path)
      o == e1.fieldMeta[path]
      e2 == [e1 EXCEPT !.heap[o].isTouched = TRUE]
  IN [e2 EXCEPT !.ran = e.schema, !.queue = Append(@,
        Cont("field", path, RhfValidateField(e2, path), o, NoErrs, FALSE, NoRun))]

\* register
RhfRegister(e, path) == RhfWithMeta(e, path)

\* register(path).onBlur
RhfOnBlur(e, path) ==
  LET e1 == RhfWithMeta(e, path)
      o == e1.fieldMeta[path]
      e2 == [e1 EXCEPT !.heap[o].isTouched = TRUE]
  IN IF e.mode \in {"onBlur", "onTouched", "all"}
     THEN [e2 EXCEPT !.ran = e.schema, !.queue = Append(@,
             Cont("field", path, RhfValidateField(e2, path), o, NoErrs, FALSE, NoRun))]
     ELSE notifySubscribers(e2)

\* register(path).onChange with a raw value
RhfOnChange(e, path, value) ==
  RhfSetValue(e, path, value, FALSE, e.mode \in {"onChange", "all"}, TRUE)

\* unregister
RhfUnregister(e, path) ==
  notifySubscribers([e EXCEPT !.fieldMeta[path] = 0])

\* reset that clears the errors and leaves the touched and dirty flags
RhfResetErrorsOnly(e, values, keepErrors) ==
  LET resetValues == [p \in Paths |-> IF p \in DOMAIN values THEN values[p]
                                      ELSE e.defaultValues[p]]
      e1 == [e EXCEPT !.values = resetValues]
      e2 == IF ~keepErrors
            THEN [e1 EXCEPT !.heap = [o \in 1..MaxObj |->
                    IF \E p \in Paths : e.fieldMeta[p] = o
                    THEN [e.heap[o] EXCEPT !.error = NoError] ELSE e.heap[o]]]
            ELSE e1
  IN notifySubscribers([e2 EXCEPT !.submitCount = 0,
                                  !.fieldIds = [has |-> FALSE, map |-> EmptyMap]])

\* reset: values is a partial (a map from some paths to values)
RhfReset(e, values, keepErrors) ==
  LET resetValues == [p \in Paths |-> IF p \in DOMAIN values THEN values[p]
                                      ELSE e.defaultValues[p]]
      e1 == [e EXCEPT !.values = resetValues]
      e2 == IF ~keepErrors
            THEN [e1 EXCEPT !.heap = [o \in 1..MaxObj |->
                    IF \E p \in Paths : e.fieldMeta[p] = o
                    THEN DefaultMeta ELSE e.heap[o]]]
            ELSE e1
  IN notifySubscribers([e2 EXCEPT !.submitCount = 0,
                                  !.fieldIds = [has |-> FALSE, map |-> EmptyMap]])

\* destroyForm
RhfDestroyForm(e) ==
  [e EXCEPT !.subscribers = <<>>,
            !.fieldMeta = [p \in Paths |-> 0],
            !.fieldIds = [has |-> FALSE, map |-> EmptyMap]]

\* subscribe / watch, and the function they return
RhfSubscribe(e, s) == [e EXCEPT !.subscribers = Append(@, s)]
RhfUnsubscribe(e, s) ==
  [e EXCEPT !.subscribers = SelectSeq(@, LAMBDA x : x # s)]

\* the handler handleSubmit returns, up to its first await
RhfSubmitStart(e, throws, hasInv) ==
  LET e1 == notifySubscribers([e EXCEPT !.isSubmitting = TRUE,
                                        !.submitCount = @ + 1])
      e2 == notifySubscribers([e1 EXCEPT !.isValidating = TRUE])
  IN [e2 EXCEPT !.ran = e.schema, !.queue = Append(@,
        Cont("submitA", "", NoError, 0, RhfValidateAllFields(e2), FALSE,
             [NoRun EXCEPT !.throws = throws, !.hasInv = hasInv]))]

\* trigger after `await validateAllFields(engine)`, with its finally block
RhfApplyAll(e, errs) ==
  LET RECURSIVE Put(_, _)
      Put(x, ps) ==
        IF ps = {} THEN x
        ELSE LET p == CHOOSE q \in ps : TRUE
                 x1 == RhfWithMeta(x, p)
             IN Put([x1 EXCEPT !.heap[x1.fieldMeta[p]].error = ValidationErr(errs[p])],
                    ps \ {p})
      e1 == Put(e, DOMAIN errs)
      e2 == [e1 EXCEPT !.heap = [o \in 1..MaxObj |->
               IF \E p \in Paths \ DOMAIN errs : e1.fieldMeta[p] = o
               THEN [e1.heap[o] EXCEPT !.error = NoError] ELSE e1.heap[o]]]
  IN notifySubscribers([e2 EXCEPT !.isValidating = FALSE])

\* the finally block of the submit handler, and what the caller saw of the run
RhfSubmitEnd(e, ok, run, escaped) ==
  notifySubscribers(
    [e EXCEPT !.isSubmitting = FALSE,
              !.last = [done |-> TRUE, ok |-> ok, throws |-> run.throws,
                        hasInv |-> run.hasInv, valid |-> run.valid,
                        invalid |-> run.invalid, escaped |-> escaped]])

\* the submit handler after `await self.trigger(engine)`, without a finally
\* block on the path an exception takes
RhfAfterTriggerNoFinally(e, c) ==
  IF c.ok
  THEN LET run == [c.run EXCEPT !.valid = @ + 1]
       IN IF run.throws
          THEN [e EXCEPT !.last = [done |-> TRUE, ok |-> TRUE, throws |-> TRUE,
                                   hasInv |-> run.hasInv, valid |-> run.valid,
                                   invalid |-> run.invalid, escaped |-> TRUE]]
          ELSE [e EXCEPT !.queue = Append(@,
                  Cont("submitC", "", NoError, 0, NoErrs, TRUE, run))]
  ELSE IF c.run.hasInv
       THEN RhfSubmitEnd(e, FALSE, [c.run EXCEPT !.invalid = @ + 1], FALSE)
       ELSE RhfSubmitEnd(e, FALSE, c.run, FALSE)

\* the submit handler after `await self.trigger(engine)`: with the call
\* of onInvalid left out
RhfAfterTriggerNoInvalid(e, c) ==
  IF c.ok
  THEN LET run == [c.run EXCEPT !.valid = @ + 1]
       IN IF run.throws
          THEN RhfSubmitEnd(e, TRUE, run, TRUE)
          ELSE [e EXCEPT !.queue = Append(@,
                  Cont("submitC", "", NoError, 0, NoErrs, TRUE, run))]
  ELSE RhfSubmitEnd(e, FALSE, c.run, FALSE)

\* the submit handler after `await self.trigger(engine)`
RhfAfterTrigger(e, c) ==
  IF c.ok
  THEN LET run == [c.run EXCEPT !.valid = @ + 1]      \* await onValid(values)
       IN IF run.throws
          THEN RhfSubmitEnd(e, TRUE, run, TRUE)
          ELSE [e EXCEPT !.queue = Append(@,
                  Cont("submitC", "", NoError, 0, NoErrs, TRUE, run))]
  ELSE IF c.run.hasInv
       THEN RhfSubmitEnd(e, FALSE, [c.run EXCEPT !.invalid = @ + 1], FALSE)
       ELSE RhfSubmitEnd(e, FALSE, c.run, FALSE)

\* one promise continuation c runs
RhfRun(e, c) ==
  CASE c.k = "field" ->
         \* .then(error => { currentMeta.error = error; fieldMeta.set(...) })
         notifySubscribers([e EXCEPT !.heap[c.obj].error = c.err,
                                     !.fieldMeta[c.path] = c.obj])
    [] c.k \in {"trigPath", "trigLast"} ->
         LET e1 == RhfWithMeta(e, c.path)
             e2 == [e1 EXCEPT !.heap[e1.fieldMeta[c.path]].error = c.err]
         IN IF c.k = "trigLast"
            THEN [e2 EXCEPT !.queue = Append(@,
                    Cont("trigFin", "", NoError, 0, NoErrs, c.ok, NoRun))]
            ELSE e2
    [] c.k = "trigFin" ->
         notifySubscribers([e EXCEPT !.isValidating = FALSE])
    [] c.k = "trigAll" -> RhfApplyAll(e, c.errs)
    [] c.k = "submitA" ->
         [RhfApplyAll(e, c.errs) EXCEPT !.queue = Append(@,
            Cont("submitB", "", NoError, 0, NoErrs, DOMAIN c.errs = {}, c.run))]
    [] c.k = "submitB" -> RhfAfterTrigger(e, c)
    [] c.k = "submitC" -> RhfSubmitEnd(e, TRUE, c.run, FALSE)

\* the head of the microtask queue runs
RhfTick(e) ==
  IF e.queue = <<>> THEN e
  ELSE RhfCollect(RhfRun([e EXCEPT !.queue = Tail(@)], Head(e.queue)))

\* ============================================== getFieldArray (all adapters)
\* The three adapters hold the same text for the identifier map; the
\* operators below work on fa = [arr, map, ctr]: the array at the path, the
\* Map<number, string> of the path and the module's id counter.  Indices are
\* those of the source (from 0); arr[i + 1] is the element at index i.
FA(arr, map, ctr) == [arr |-> arr, map |-> map, ctr |-> ctr]

\* map.set(k, v)
MapSet(map, k, v) ==
  [i \in DOMAIN map \cup {k} |-> IF i = k THEN v ELSE map[i]]

\* Array.prototype.splice(index, 0, value) and splice(index, 1)
SpliceIn(arr, index, value) ==
  LET at == IF index > Len(arr) THEN Len(arr) ELSE index
  IN SubSeq(arr, 1, at) \o <<value>> \o SubSeq(arr, at + 1, Len(arr))
SpliceOut(arr, index) ==
  SubSeq(arr, 1, index) \o SubSeq(arr, index + 2, Len(arr))

\* the keys of a map in ascending order
RECURSIVE SortedKeys(_)
SortedKeys(ks) ==
  IF ks = {} THEN <<>> ELSE <<Min(ks)>> \o SortedKeys(ks \ {Min(ks)})

\* getFieldArray that gives every index a new identifier on every call
FaEnsureFresh(fa) ==
  FA(fa.arr, [i \in 0..(Len(fa.arr) - 1) |-> fa.ctr + i + 1],
     fa.ctr + Len(fa.arr))

\* getFieldArray: `if (!idMap.has(i)) idMap.set(i, generateId())` for every
\* index of the current array, in ascending order
FaEnsure(fa) ==
  LET missing == {i \in 0..(Len(fa.arr) - 1) : i \notin DOMAIN fa.map}
      rank(i) == Cardinality({j \in missing : j <= i})
  IN FA(fa.arr,
        [i \in DOMAIN fa.map \cup missing |->
           IF i \in missing THEN fa.ctr + rank(i) ELSE fa.map[i]],
        fa.ctr + Cardinality(missing))

\* fields[i].id of the handle a getFieldArray call returns now
FaFields(fa) == [i \in 1..Len(fa.arr) |-> FaEnsure(fa).map[i - 1]]

FaAppend(fa, value) ==
  LET newArr == Append(fa.arr, value)
  IN FA(newArr, MapSet(fa.map, Len(newArr) - 1, generateId(fa.ctr)),
        generateId(fa.ctr))

FaPrepend(fa, value) ==
  LET shifted == [i \in {k + 1 : k \in DOMAIN fa.map} |-> fa.map[i - 1]]
  IN FA(<<value>> \o fa.arr, MapSet(shifted, 0, generateId(fa.ctr)),
        generateId(fa.ctr))

FaInsert(fa, index, value) ==
  LET to(idx) == IF idx >= index THEN idx + 1 ELSE idx
      rebuilt == [i \in {to(k) : k \in DOMAIN fa.map} |->
                    fa.map[CHOOSE k \in DOMAIN fa.map : to(k) = i]]
  IN FA(SpliceIn(fa.arr, index, value),
        MapSet(rebuilt, index, generateId(fa.ctr)), generateId(fa.ctr))

\* remove that drops the values and leaves the first identifiers in place
FaRemoveIdsStay(fa, indices) ==
  LET keep == {i \in 1..Len(fa.arr) : (i - 1) \notin indices}
      newArr == [j \in 1..Cardinality(keep) |->
                   fa.arr[SortedKeys(keep)[j]]]
  IN FA(newArr,
        [i \in (0..(Len(newArr) - 1)) \cap DOMAIN fa.map |-> fa.map[i]],
        fa.ctr)

\* remove that drops the values and leaves the id map as it was
FaRemoveKeepsMap(fa, indices) ==
  LET keep == {i \in 1..Len(fa.arr) : (i - 1) \notin indices}
      newArr == [j \in 1..Cardinality(keep) |->
                   fa.arr[SortedKeys(keep)[j]]]
  IN FA(newArr, fa.map, fa.ctr)

\* remove: indices is the set built from the argument
FaRemove(fa, indices) ==
  LET keep == {i \in 1..Len(fa.arr) : (i - 1) \notin indices}
      newArr == [j \in 1..Cardinality(keep) |->
                   fa.arr[SortedKeys(keep)[j]]]
      remaining == SortedKeys(DOMAIN fa.map \ indices)
  IN FA(newArr,
        [i \in 0..(Len(remaining) - 1) |-> fa.map[remaining[i + 1]]],
        fa.ctr)

\* swap, for two indices of the array
FaSwap(fa, indexA, indexB) ==
  LET newArr == [fa.arr EXCEPT ![indexA + 1] = fa.arr[indexB + 1],
                               ![indexB + 1] = fa.arr[indexA + 1]]
      m1 == IF indexA \in DOMAIN fa.map
            THEN MapSet(fa.map, indexB, fa.map[indexA]) ELSE fa.map
      m2 == IF indexB \in DOMAIN fa.map
            THEN MapSet(m1, indexA, fa.map[indexB]) ELSE m1
  IN FA(newArr, m2, fa.ctr)

\* the loop of move over the sorted entries; st = [map, newIdx]
RECURSIVE FaMoveLoop(_, _, _, _, _, _)
FaMoveLoop(old, entries, k, from, to, st) ==
  IF k > Len(entries) THEN st
  ELSE LET idx == entries[k]
           s1 == IF idx = from THEN st
                 ELSE LET a == IF st.newIdx = to
                               THEN [map |-> MapSet(st.map, st.newIdx, st.movedId),
                                     newIdx |-> st.newIdx + 1,
                                     movedId |-> st.movedId]
                               ELSE st
                      IN [map |-> MapSet(a.map, a.newIdx, old[idx]),
                          newIdx |-> a.newIdx + 1, movedId |-> a.movedId]
       IN FaMoveLoop(old, entries, k + 1, from, to, s1)

\* move that leaves every identifier at the index it was at
FaMoveIdsStay(fa, from, to) ==
  FA(SpliceIn(SpliceOut(fa.arr, from), to, fa.arr[from + 1]), fa.map, fa.ctr)

\* move, for an index `from` of the array
FaMove(fa, from, to) ==
  LET item == fa.arr[from + 1]
      newArr == SpliceIn(SpliceOut(fa.arr, from), to, item)
      fresh == from \notin DOMAIN fa.map
      movedId == IF fresh THEN generateId(fa.ctr) ELSE fa.map[from]
      st == FaMoveLoop(fa.map, SortedKeys(DOMAIN fa.map), 1, from, to,
                       [map |-> EmptyMap, newIdx |-> 0, movedId |-> movedId])
      m == IF to >= st.newIdx THEN MapSet(st.map, to, movedId) ELSE st.map
  IN FA(newArr, m, IF fresh THEN generateId(fa.ctr) ELSE fa.ctr)

\* update, for an index of the array
FaUpdate(fa, index, value) ==
  FA([fa.arr EXCEPT ![index + 1] = value], fa.map, fa.ctr)

FaReplace(fa, newValues) ==
  FA(newValues, [i \in 0..(Len(newValues) - 1) |-> fa.ctr + i + 1],
     fa.ctr + Len(newValues))

\* ============================================ tanstackAdapter (TanStackEngine)
\* FormApi is the external store of @tanstack/form-core, seen through the
\* SimplifiedFormApi interface: api.values, api.fieldMeta, api.isValid and
\* api.submissionAttempts are its state.  Its validate calls run the
\* validator createValidators configured for the cause, at once (the
\* validator is synchronous).
NoMeta == [has |-> FALSE, isTouched |-> FALSE, isDirty |-> FALSE, errors |-> <<>>]

\* createDefaultFieldMeta
createDefaultFieldMeta == [NoMeta EXCEPT !.has = TRUE]

\* createValidators: the causes that have a validator
createValidators(mode, hasSchema) ==
  IF ~hasSchema THEN {}
  ELSE (IF mode \in {"onChange", "all"} THEN {"change"} ELSE {})
       \cup (IF mode \in {"onBlur", "onTouched", "all"} THEN {"blur"} ELSE {})
       \cup {"submit"}

\* createForm
TsCreateForm(mode, hasSchema) ==
  [api |-> [values |-> DefaultValues,
            fieldMeta |-> [p \in Paths |-> NoMeta],
            isValid |-> TRUE,
            isValidating |-> FALSE,
            isDirty |-> FALSE,
            submissionAttempts |-> 0,
            validators |-> createValidators(mode, hasSchema)],
   adapterState |-> [fieldMeta |-> [p \in Paths |-> NoMeta],
                     isSubmitting |-> FALSE],
   subscribers |-> <<>>,
   schema |-> hasSchema,
   defaultValues |-> DefaultValues,
   mode |-> mode,
   fieldIds |-> [has |-> FALSE, map |-> EmptyMap],
   queue |-> <<>>,
   calls |-> 0, nested |-> 0, depth |-> 0, partial |-> FALSE, ran |-> FALSE,
   seen |-> {},
   budget |-> 0, last |-> NoSubmit]

\* api.setFieldValue(path, value, { dontUpdateMeta })
ApiSetFieldValue(api, path, value, dontUpdateMeta) ==
  LET a == [api EXCEPT !.values = setByPath(@, path, value)]
  IN IF dontUpdateMeta THEN a
     ELSE [a EXCEPT !.fieldMeta[path] =
             [@ EXCEPT !.has = TRUE, !.isTouched = TRUE, !.isDirty = TRUE],
                    !.isDirty = TRUE]

\* api.validateField(path, cause) / api.validateAllFields(cause): paths is
\* the set of fields the call names
ApiValidate(api, paths, cause) ==
  IF cause \notin api.validators THEN api
  ELSE LET errs == SchemaErrors(api.values)
           fm == [p \in Paths |->
                    IF p \in paths
                    THEN [api.fieldMeta[p] EXCEPT
                            !.has = TRUE,
                            !.errors = IF p \in DOMAIN errs THEN <<errs[p]>> ELSE <<>>]
                    ELSE api.fieldMeta[p]]
       IN [api EXCEPT !.fieldMeta = fm,
                      !.isValid = \A p \in Paths : fm[p].errors = <<>>]

\* a call of api.validateField / api.validateAllFields by the adapter; ran
\* tells that it invoked the validator createValidators registered
TsValidate(e, paths, cause) ==
  [e EXCEPT !.api = ApiValidate(@, paths, cause),
            !.ran = @ \/ cause \in e.api.validators]

\* api.reset(values)
ApiReset(api, values) ==
  [api EXCEPT !.values = values,
              !.fieldMeta = [p \in Paths |-> NoMeta],
              !.isValid = TRUE, !.isDirty = FALSE,
              !.submissionAttempts = 0]

\* syncErrorsFromForm
syncErrorsFromForm(e) ==
  [e EXCEPT !.adapterState.fieldMeta = [p \in Paths |->
     IF ~e.api.fieldMeta[p].has THEN @[p]
     ELSE LET m0 == IF @[p].has THEN @[p] ELSE createDefaultFieldMeta
              m1 == IF Len(e.api.fieldMeta[p].errors) > 0
                    THEN [m0 EXCEPT !.errors = e.api.fieldMeta[p].errors] ELSE m0
              m2 == IF e.api.fieldMeta[p].isTouched
                    THEN [m1 EXCEPT !.isTouched = TRUE] ELSE m1
          IN IF e.api.fieldMeta[p].isDirty
             THEN [m2 EXCEPT !.isDirty = TRUE] ELSE m2]]

\* getErrors
TsGetErrors(e) ==
  LET fm == syncErrorsFromForm(e).adapterState.fieldMeta
  IN [p \in {q \in Paths : fm[q].has /\ Len(fm[q].errors) > 0} |->
        ValidationErr(fm[p].errors[1])]

\* getState
TsGetState(e) ==
  LET fm == syncErrorsFromForm(e).adapterState.fieldMeta
  IN [values |-> e.api.values,
      errors |-> TsGetErrors(e),
      touched |-> {p \in Paths : fm[p].has /\ fm[p].isTouched},
      dirty |-> {p \in Paths : fm[p].has /\ fm[p].isDirty},
      isSubmitting |-> e.adapterState.isSubmitting,
      isValidating |-> e.api.isValidating,
      isValid |-> e.api.isValid,
      isDirty |-> e.api.isDirty,
      submitCount |-> e.api.submissionAttempts]

\* getFieldState
TsGetFieldState(e, path) ==
  LET fm == syncErrorsFromForm(e).adapterState.fieldMeta
      meta == IF fm[path].has THEN fm[path] ELSE createDefaultFieldMeta
      hasError == Len(meta.errors) > 0
  IN [isTouched |-> meta.isTouched, isDirty |-> meta.isDirty,
      error |-> IF hasError THEN ValidationErr(meta.errors[1]) ELSE NoError,
      isInvalid |-> hasError]

\* `if (!fieldMeta[path]) fieldMeta[path] = createDefaultFieldMeta()`
TsWithMeta(e, path) ==
  IF e.adapterState.fieldMeta[path].has THEN e
  ELSE [e EXCEPT !.adapterState.fieldMeta[path] = createDefaultFieldMeta]

\* what a call of getState, getError, getErrors or getFieldState leaves of
\* the engine: each begins with syncErrorsFromForm(engine)
TsRead(e) == syncErrorsFromForm(e)

\* setError up to its notification
TsSetErrorWrite(e, path, error) ==
  LET normalized == normalizeFieldError(error)
  IN IF normalized = NoError \/ normalized.message = "" THEN e
     ELSE [TsWithMeta(e, path) EXCEPT
             !.adapterState.fieldMeta[path].errors = <<normalized.message>>]

\* notifySubscribers (the subscribers are those of RhfNotifyFrom)
RECURSIVE TsNotifyFrom(_, _, _)
TsNotifyFrom(e, i, d) ==
  IF i > Len(e.subscribers) THEN e
  ELSE LET s == e.subscribers[i]
           \* wrappedCallback: callback(self.getState(engine))
           e1 == [syncErrorsFromForm(e) EXCEPT
                           !.calls = @ + 1,
                           !.seen = @ \cup {s},
                           !.nested = @ + (IF d > 0 /\ s = "mut" THEN 1 ELSE 0),
                           !.depth = IF d + 1 > @ THEN d + 1 ELSE @]
           e2 == IF s = "mut" /\ e1.budget > 0
                 THEN TsNotifyFrom(
                        TsSetErrorWrite([e1 EXCEPT !.budget = @ - 1], "name",
                                        [message |-> "bad", type |-> "string"]),
                        1, d + 1)
                 ELSE IF s = QuitId
                 THEN [e1 EXCEPT !.subscribers = SelectSeq(@, LAMBDA x : x # s)]
                 ELSE e1
       IN TsNotifyFrom(e2, NextMember(e.subscribers, e2.subscribers, i), d)

TsNotifySubscribers(e) == TsNotifyFrom(e, 1, 0)

\* setValue
TsSetValue(e, path, value, shouldValidate, shouldDirty) ==
  LET e1 == [e EXCEPT !.api = ApiSetFieldValue(@, path, value, ~shouldDirty)]
      e2 == IF shouldDirty
            THEN [TsWithMeta(e1, path) EXCEPT
                    !.adapterState.fieldMeta[path].isDirty = TRUE]
            ELSE e1
      e3 == IF shouldValidate
            THEN TsValidate(e2, {path}, "change")
            ELSE e2
  IN TsNotifySubscribers(e3)

\* setValues
TsSetValues(e, keys, vals, shouldValidate) ==
  LET RECURSIVE Put(_, _)
      Put(api, i) == IF i > Len(keys) THEN api
                     ELSE Put(ApiSetFieldValue(api, keys[i], vals[keys[i]], FALSE),
                              i + 1)
      e1 == [e EXCEPT !.api = Put(@, 1)]
      e2 == IF shouldValidate
            THEN TsValidate(e1, Paths, "change")
            ELSE e1
  IN TsNotifySubscribers(e2)

\* setError
TsSetError(e, path, error) ==
  IF normalizeFieldError(error) = NoError
     \/ normalizeFieldError(error).message = "" THEN e
  ELSE TsNotifySubscribers(TsSetErrorWrite(e, path, error))

\* clearErrors: paths is the set of the listed paths, every key of
\* adapterState.fieldMeta when the argument is left out
TsClearErrors(e, paths) ==
  TsNotifySubscribers(
    [e EXCEPT !.adapterState.fieldMeta = [p \in Paths |->
       IF p \in paths /\ @[p].has THEN [@[p] EXCEPT !.errors = <<>>] ELSE @[p]]])

\* register: the descriptor is returned, nothing is stored
TsRegister(e, path) == e

\* register(path).onBlur
TsOnBlur(e, path) ==
  LET e1 == [TsWithMeta(e, path) EXCEPT
               !.adapterState.fieldMeta[path].isTouched = TRUE]
      e2 == IF e.mode \in {"onBlur", "onTouched", "all"}
            THEN TsValidate(e1, {path}, "blur")
            ELSE e1
  IN TsNotifySubscribers(e2)

\* register(path).onChange with a raw value
TsOnChange(e, path, value) ==
  TsSetValue(e, path, value, e.mode \in {"onChange", "all"}, TRUE)

\* unregister
TsUnregister(e, path) ==
  TsNotifySubscribers([e EXCEPT !.adapterState.fieldMeta[path] = NoMeta])

\* reset
TsReset(e, values, keepErrors) ==
  LET resetValues == [p \in Paths |-> IF p \in DOMAIN values THEN values[p]
                                      ELSE e.defaultValues[p]]
      e1 == [e EXCEPT !.api = ApiReset(@, resetValues)]
      e2 == IF ~keepErrors
            THEN [e1 EXCEPT !.adapterState.fieldMeta = [p \in Paths |->
                    IF @[p].has THEN [@[p] EXCEPT !.errors = <<>>] ELSE @[p]]]
            ELSE e1
      e3 == [e2 EXCEPT !.adapterState.fieldMeta = [p \in Paths |->
               IF @[p].has
               THEN [@[p] EXCEPT !.isTouched = FALSE, !.isDirty = FALSE]
               ELSE @[p]]]
  IN TsNotifySubscribers([e3 EXCEPT !.fieldIds = [has |-> FALSE, map |-> EmptyMap]])

\* destroyForm
TsDestroyForm(e) ==
  [e EXCEPT !.subscribers = <<>>,
            !.fieldIds = [has |-> FALSE, map |-> EmptyMap]]

\* subscribe / watch, and the function they return
TsSubscribe(e, s) == [e EXCEPT !.subscribers = Append(@, s)]
TsUnsubscribe(e, s) ==
  [e EXCEPT !.subscribers = SelectSeq(@, LAMBDA x : x # s)]

\* trigger, up to its await
TsTriggerStart(e, paths) ==
  LET ps == IF Len(paths) > 0 THEN Range(paths) ELSE Paths
  IN [TsValidate(e, ps, "submit") EXCEPT
               !.queue = Append(@,
                  Cont("trigger", "", NoError, 0, NoErrs, FALSE, NoRun))]

\* the handler handleSubmit returns, up to its first await
TsSubmitStart(e, throws, hasInv) ==
  LET e1 == TsNotifySubscribers([e EXCEPT !.adapterState.isSubmitting = TRUE])
  IN [TsValidate(e1, Paths, "submit") EXCEPT
                !.queue = Append(@,
                   Cont("submitB", "", NoError, 0, NoErrs, FALSE,
                        [NoRun EXCEPT !.throws = throws, !.hasInv = hasInv]))]

\* the finally block of the submit handler, and what the caller saw of the run
TsSubmitEnd(e, ok, run) ==
  TsNotifySubscribers(
    [e EXCEPT !.adapterState.isSubmitting = FALSE,
              !.last = [done |-> TRUE, ok |-> ok, throws |-> run.throws,
                        hasInv |-> run.hasInv, valid |-> run.valid,
                        invalid |-> run.invalid, escaped |-> FALSE]])

\* one promise continuation c runs
TsRun(e, c) ==
  CASE c.k = "trigger" -> syncErrorsFromForm(e)
    [] c.k = "submitB" ->
         LET e1 == syncErrorsFromForm(e)
         IN IF e1.api.isValid
            THEN LET run == [c.run EXCEPT !.valid = @ + 1]   \* await onValid(values)
                 IN IF run.throws
                    THEN \* catch { if (onInvalid) onInvalid(getErrors(engine)) }
                         TsSubmitEnd(e1, TRUE,
                           IF run.hasInv THEN [run EXCEPT !.invalid = @ + 1] ELSE run)
                    ELSE [e1 EXCEPT !.queue = Append(@,
                            Cont("submitC", "", NoError, 0, NoErrs, TRUE, run))]
            ELSE TsSubmitEnd(e1, FALSE,
                   IF c.run.hasInv THEN [c.run EXCEPT !.invalid = @ + 1] ELSE c.run)
    [] c.k = "submitC" -> TsSubmitEnd(e, TRUE, c.run)

\* the head of the microtask queue runs
TsTick(e) ==
  IF e.queue = <<>> THEN e
  ELSE TsRun([e EXCEPT !.queue = Tail(@)], Head(e.queue))

\* ================================================================== state
\* rhf: the engine of rhfAdapter (and, with the same text, of formikAdapter);
\* ts: the engine of tanstackAdapter, created from the same config and
\* driven by the same calls; counter: the id counter of id.ts; op: the call
\* the application made last; nsub: submit handlers invoked so far; other: a
\* second engine of rhfAdapter in the same process; calc: the arguments and
\* the result of a call of one of the utilities of path.ts, compare.ts and
\* errors.ts, or the value tree and the dirty flags of an engine whose
\* fields are nested paths.
VARIABLES rhf, ts, counter, op, nsub, other, calc
vars == <<rhf, ts, counter, op, nsub, other, calc>>

Op(name, path, x, y) == [name |-> name, path |-> path, x |-> x, y |-> y]

ItemVals == {<<>>, <<1>>, <<1, 2>>}
ValsOf(p) == IF p = ArrayPath THEN ItemVals ELSE NameVals
KeyOrders == {<<"name">>, <<"name", "items">>, <<"items", "name">>}

\* no utility call is being looked at
NoCalc == [stage |-> "none"]

\* createForm with a mode of modes and, as hasSchema says, a schema
InitWith(modes, schemas) ==
  \E mode \in modes, hasSchema \in schemas :
    /\ rhf = RhfCreateForm(mode, hasSchema)
    /\ ts = TsCreateForm(mode, hasSchema)
    \* a second engine of rhfAdapter, created from the same config object
    /\ other = RhfCreateForm(mode, hasSchema)
    /\ calc = NoCalc
    /\ counter = 0
    /\ op = Op("createForm", "", FALSE, FALSE)
    /\ nsub = 0

Init == InitWith(Modes, BOOLEAN)

\* room for n more continuations in both engines
Room(n) == Len(rhf.queue) + n <= MaxPending /\ Len(ts.queue) + n <= MaxPending

Step(r, t, o) ==
  /\ rhf' = RhfCollect(r)
  /\ other' = other
  /\ calc' = calc
  /\ ts' = t
  /\ op' = o

\* the actions take the paths (or lists of paths) the application works on;
\* SetValue takes the values of shouldValidate it passes as well
SetValue(ps, svs) ==
  \E p \in ps, sv \in svs, sd \in BOOLEAN, sameRef \in BOOLEAN :
  \E v \in ValsOf(p) :
    /\ sameRef => (p = ArrayPath /\ v = DefaultValues[p])
    /\ sv => Room(1)
    /\ Step(RhfSetValue(Observe(rhf), p, v, sameRef, sv, sd),
            TsSetValue(Observe(ts), p, v, sv, sd),
            Op("setValue", p, sv, sd))
    /\ UNCHANGED <<counter, nsub>>

SetValues(orders) ==
  \E keys \in orders, sv \in BOOLEAN, vn \in NameVals, vi \in ItemVals :
    LET vals == [p \in Paths |-> IF p = ArrayPath THEN vi ELSE vn]
    IN /\ sv => Room(1)
       /\ Step(RhfSetValues(Observe(rhf), keys, vals, sv),
               TsSetValues(Observe(ts), keys, vals, sv),
               Op("setValues", "", sv, Len(keys) > 1))
       /\ UNCHANGED <<counter, nsub>>

\* a bare string, a FieldError object, or the empty string
ErrorArgs == {[message |-> "bad", type |-> "string"],
              [message |-> "bad", type |-> "custom"],
              [message |-> "", type |-> "string"]}

SetError(ps) ==
  \E p \in ps, error \in ErrorArgs :
    /\ Step(RhfSetError(Observe(rhf), p, error),
            TsSetError(Observe(ts), p, error),
            Op("setError", p, error.type = "string", error.message = ""))
    /\ UNCHANGED <<counter, nsub>>

ClearErrors(ps) ==
  \E paths \in SUBSET ps :
    /\ paths # {}
    /\ Step(RhfClearErrors(Observe(rhf), paths),
            TsClearErrors(Observe(ts), paths),
            Op("clearErrors", "", paths = ps, FALSE))
    /\ UNCHANGED <<counter, nsub>>

Register(ps) ==
  \E p \in ps :
    /\ Step(RhfRegister(Observe(rhf), p), TsRegister(Observe(ts), p),
            Op("register", p, FALSE, FALSE))
    /\ UNCHANGED <<counter, nsub>>

OnBlur(ps) ==
  \E p \in ps :
    /\ Room(1)
    /\ Step(RhfOnBlur(Observe(rhf), p), TsOnBlur(Observe(ts), p),
            Op("onBlur", p, FALSE, FALSE))
    /\ UNCHANGED <<counter, nsub>>

OnChange(ps) ==
  \E p \in ps : \E v \in ValsOf(p) :
    /\ Room(1)
    /\ Step(RhfOnChange(Observe(rhf), p, v), TsOnChange(Observe(ts), p, v),
            Op("onChange", p, v # DefaultValues[p], FALSE))
    /\ UNCHANGED <<counter, nsub>>

Unregister(ps) ==
  \E p \in ps :
    /\ Step(RhfUnregister(Observe(rhf), p), TsUnregister(Observe(ts), p),
            Op("unregister", p, FALSE, FALSE))
    /\ UNCHANGED <<counter, nsub>>

\* the values reset is called with, when it is called with values
ResetArgsGiven == [p \in {"name"} |-> "x"]

ResetArgs == {NoErrs, ResetArgsGiven}

Reset ==
  \E values \in ResetArgs, keepErrors \in BOOLEAN :
    /\ Step(RhfReset(Observe(rhf), values, keepErrors),
            TsReset(Observe(ts), values, keepErrors),
            Op("reset", "", keepErrors, values # NoErrs))
    /\ UNCHANGED <<counter, nsub>>

Trigger(lists) ==
  \E paths \in lists :
    /\ Room(IF Len(paths) = 0 THEN 1 ELSE Len(paths))
    /\ Step(RhfTriggerStart(Observe(rhf), paths, "trigAll"),
            TsTriggerStart(Observe(ts), paths),
            Op("trigger", "", Len(paths) > 0, FALSE))
    /\ UNCHANGED <<counter, nsub>>

\* the application calls the handler of handleSubmit(engine, onValid, onInvalid?)
\* (throwing: whether onValid throws; withInvalid: whether onInvalid is given)
Submit(throwing, withInvalid) ==
  \E throws \in throwing, hasInv \in withInvalid :
    /\ nsub < MaxSubmits
    /\ Room(1)
    /\ Step(RhfSubmitStart(Observe(rhf), throws, hasInv),
            TsSubmitStart(Observe(ts), throws, hasInv),
            Op("submit", "", throws, hasInv))
    /\ nsub' = nsub + 1
    /\ UNCHANGED counter

Subscribe ==
  \E s \in SubIds :
    /\ s \notin Range(rhf.subscribers)
    /\ Step(RhfSubscribe(Observe(rhf), s), TsSubscribe(Observe(ts), s),
            Op("subscribe", s, FALSE, FALSE))
    /\ UNCHANGED <<counter, nsub>>

Unsubscribe ==
  \E s \in SubIds :
    /\ s \in Range(rhf.subscribers)
    /\ Step(RhfUnsubscribe(Observe(rhf), s), TsUnsubscribe(Observe(ts), s),
            Op("unsubscribe", s, FALSE, FALSE))
    /\ UNCHANGED <<counter, nsub>>

\* subscribe with the callback that unsubscribes itself
SubscribeQuitter ==
  /\ QuitId \notin Range(rhf.subscribers)
  /\ QuitId \notin Range(ts.subscribers)
  /\ Step(RhfSubscribe(Observe(rhf), QuitId), TsSubscribe(Observe(ts), QuitId),
          Op("subscribe", QuitId, FALSE, FALSE))
  /\ UNCHANGED <<counter, nsub>>

\* the application calls once more an unsubscribe function that has just
\* been called, by itself or by the callback from inside a notification of
\* the custom-store engine
UnsubscribeAgain ==
  \E s \in SubIds \cup {QuitId} :
    /\ s \notin Range(rhf.subscribers)
    /\ \/ op.name \in {"unsubscribe", "unsubscribeAgain"} /\ op.path = s
       \/ s = QuitId /\ QuitId \in rhf.seen
    /\ Step(RhfUnsubscribe(Observe(rhf), s), TsUnsubscribe(Observe(ts), s),
            Op("unsubscribeAgain", s, FALSE, FALSE))
    /\ UNCHANGED <<counter, nsub>>

\* the application reads: getState, getError, getErrors or getFieldState
Read ==
  \E p \in {"name"} :
    /\ Step(RhfRead(Observe(rhf)), TsRead(Observe(ts)),
            Op("getFieldState", p, FALSE, FALSE))
    /\ UNCHANGED <<counter, nsub>>

\* the application lets the callback "mut" mutate n more times
Arm ==
  \E n \in 1..MaxReentry :
    /\ rhf.budget = 0
    /\ Step([Observe(rhf) EXCEPT !.budget = n], [Observe(ts) EXCEPT !.budget = n],
            Op("arm", "", FALSE, FALSE))
    /\ UNCHANGED <<counter, nsub>>

DestroyForm ==
  /\ Step(RhfDestroyForm(Observe(rhf)), TsDestroyForm(Observe(ts)),
          Op("destroyForm", "", FALSE, FALSE))
  /\ UNCHANGED <<counter, nsub>>

\* the microtask at the head of each engine's queue runs
Tick ==
  /\ rhf.queue # <<>> \/ ts.queue # <<>>
  /\ Step(RhfTick(Observe(rhf)), TsTick(Observe(ts)), Op("tick", "", FALSE, FALSE))
  /\ UNCHANGED <<counter, nsub>>

\* ---------------------------------------------------------- field arrays
\* getFieldArray(engine, 'items') and the mutators of the handle it returns,
\* on the custom-store engine (the handle code of tanstackAdapter is the
\* same text over api.state.values).  A handle works on the Map stored in
\* engine.fieldIds; setArray is
\* setValue(engine, path, newArray, { shouldValidate: true }).
RhfFa(e, ctr) == FA(e.values[ArrayPath], e.fieldIds.map, ctr)

RhfGetFieldArray(e, ctr) ==
  [e EXCEPT !.fieldIds = [has |-> TRUE, map |-> FaEnsure(RhfFa(e, ctr)).map]]

RhfSetArray(e, fa) ==
  RhfSetValue([e EXCEPT !.fieldIds.map = fa.map], ArrayPath, fa.arr,
              FALSE, TRUE, TRUE)

\* resetIdCounter of id.ts, exported by the package like generateId
resetIdCounter(ctr) == 0

\* a value no element of the array holds
NewElem(arr) == Min((1..(MaxLen + 1)) \ Range(arr))
Items == rhf.values[ArrayPath]

\* (op.x: the call generated an identifier; op.y: the call before it was a
\* getFieldArray call as well)
GetFieldArray ==
  LET fa == FaEnsure(RhfFa(rhf, counter))
  IN /\ fa.ctr <= MaxId
     /\ Step(RhfGetFieldArray(Observe(rhf), counter), ts,
             Op("getFieldArray", ArrayPath, fa.ctr > counter,
                op.name = "getFieldArray"))
     /\ counter' = fa.ctr
     /\ UNCHANGED nsub

\* the array and the id map a mutator of the handle starts from
Handle == RhfFa(rhf, counter)

\* a mutator of the handle that builds fa and calls setArray
Mutate(fa, name, inRange) ==
  /\ rhf.fieldIds.has
  /\ Room(1)
  /\ fa.ctr <= MaxId
  /\ Len(fa.arr) <= MaxLen
  /\ Step(RhfSetArray(Observe(rhf), fa), ts, Op(name, ArrayPath, inRange, FALSE))
  /\ counter' = fa.ctr
  /\ UNCHANGED nsub

ArrAppend ==
  \E value \in {NewElem(Items)} :
    Mutate(FaAppend(Handle, value), "append", TRUE)

ArrPrepend ==
  \E value \in {NewElem(Items)} :
    Mutate(FaPrepend(Handle, value), "prepend", TRUE)

ArrInsert ==
  \E index \in 0..Len(Items) :
    Mutate(FaInsert(Handle, index, NewElem(Items)), "insert", TRUE)

ArrRemove ==
  \E indices \in SUBSET (0..(Len(Items) - 1)) :
    /\ indices # {}
    /\ Mutate(FaRemove(Handle, indices), "remove", TRUE)

ArrSwap ==
  \E indexA \in 0..(Len(Items) - 1), indexB \in 0..(Len(Items) - 1) :
    Mutate(FaSwap(Handle, indexA, indexB), "swap", TRUE)

ArrMove ==
  \E from \in 0..(Len(Items) - 1), to \in 0..(Len(Items) - 1) :
    Mutate(FaMove(Handle, from, to), "move", TRUE)

ArrUpdate ==
  \E index \in 0..(Len(Items) - 1) :
    Mutate(FaUpdate(Handle, index, NewElem(Items)), "update", TRUE)

ArrReplace ==
  \E newValues \in ItemVals :
    Mutate(FaReplace(Handle, newValues), "replace", TRUE)

\* index arguments past the end of the array
ArrInsertPast ==
  \E index \in (Len(Items) + 1)..(Len(Items) + MaxPast) :
    Mutate(FaInsert(Handle, index, NewElem(Items)), "insert", FALSE)

ArrMovePast ==
  \E from \in 0..(Len(Items) - 1),
     to \in Len(Items)..(Len(Items) + MaxPast - 1) :
    Mutate(FaMove(Handle, from, to), "move", FALSE)

\* ---------------------------------------------------------- specifications
\* field arrays of a schema-less engine, index arguments within the array
InitArray == InitWith({"onSubmit"}, {FALSE})
NextArray ==
  \/ GetFieldArray \/ ArrAppend \/ ArrPrepend \/ ArrInsert \/ ArrRemove
  \/ ArrSwap \/ ArrMove \/ ArrUpdate \/ ArrReplace \/ Tick
SpecArray == InitArray /\ [][NextArray]_vars

\* field arrays, index arguments also past the end of the array
NextArrayAny ==
  \/ GetFieldArray \/ ArrAppend \/ ArrRemove \/ ArrMove
  \/ ArrInsertPast \/ ArrMovePast \/ Tick
SpecArrayAny == InitArray /\ [][NextArrayAny]_vars

\* validation started by writes, blurs and trigger on one field, and its
\* continuations
InitValidate == InitWith({"onBlur", "onChange"}, {TRUE})
NextValidate ==
  \/ SetValue({"name"}, BOOLEAN) \/ OnBlur({"name"}) \/ OnChange({"name"})
  \/ Trigger({<<>>, <<"name">>}) \/ Tick
SpecValidate == InitValidate /\ [][NextValidate]_vars

\* submit handlers running against writes
InitSubmit == InitWith({"onSubmit"}, BOOLEAN)
NextSubmit == SetValue({"name"}, {FALSE}) \/ Submit(BOOLEAN, BOOLEAN) \/ Tick
SpecSubmit == InitSubmit /\ [][NextSubmit]_vars

\* the metadata of the fields under writes, manual errors and reset
InitMeta == InitWith({"onSubmit"}, {TRUE})
NextMeta ==
  \/ SetValue(Paths, {FALSE}) \/ SetError({"name"}) \/ ClearErrors({"name"})
  \/ Register({"name"}) \/ Unregister({"name"}) \/ OnBlur({"name"})
SpecMeta == InitMeta /\ [][NextMeta]_vars

\* reset after writes, blurs, submits and getFieldArray
NextReset ==
  \/ SetValue({"name"}, {FALSE}) \/ OnBlur({"name"})
  \/ Submit({FALSE}, {FALSE}) \/ GetFieldArray \/ Reset \/ Tick
SpecReset == InitMeta /\ [][NextReset]_vars

\* subscribers, one of which mutates from inside its callback
InitNotify == InitWith({"onSubmit"}, {FALSE})
NextNotify ==
  \/ Subscribe \/ Arm
  \/ SetValues(KeyOrders) \/ SetError({"name"}) \/ Tick
SpecNotify == InitNotify /\ [][NextNotify]_vars

\* ================================================================== claims
\* the ids a getFieldArray call made now reports, by position
FieldIds == FaFields(RhfFa(rhf, counter))

\* every index of the array has its identifier in the map
IdsComplete ==
  \A i \in 0..(Len(Items) - 1) : i \in DOMAIN rhf.fieldIds.map

IdKeepingOps == {"append", "prepend", "insert", "remove", "swap", "move", "update"}

\* C1: across every field-array operation (append, prepend, insert, remove,
\* swap, move, update), whatever its index arguments, an element that is in
\* the array before and after the operation has after it the identifier it
\* had before it.
StableIdentity ==
  [][(op'.name \in IdKeepingOps /\ IdsComplete) =>
       \A i \in 1..Len(Items) : \A j \in 1..Len(Items') :
         Items[i] = Items'[j] => FieldIds[i] = FieldIds'[j]]_vars

\* ------------------------------------------------------------------ C2
\* C2: a validation result computed from a value tree that has been
\* written since (the current tree gives the path another result) is not
\* applied to the path's metadata when its continuation runs.
StaleResultDiscarded ==
  [][(op'.name = "tick" /\ rhf.queue # <<>> /\ Head(rhf.queue).k = "field"
        /\ Head(rhf.queue).err # RhfValidateField(rhf, Head(rhf.queue).path)) =>
       RhfGetFieldState(rhf', Head(rhf.queue).path).error
         = RhfGetFieldState(rhf, Head(rhf.queue).path).error]_vars

\* ------------------------------------------------------------------ C3
\* the finished runs of a submit handler, one per backend
LastRuns == {rhf.last, ts.last}

OnValidThrowCaught ==
  \A r \in LastRuns :
    (r.done /\ r.throws /\ r.valid = 1) =>
      /\ ~r.escaped
      /\ r.hasInv => r.invalid = 1

\* ------------------------------------------------------------------ C5
\* the FormState fields a caller compares across backends
Observable(st) ==
  [values |-> st.values, errors |-> st.errors, touched |-> st.touched,
   dirty |-> st.dirty, isSubmitting |-> st.isSubmitting,
   isValid |-> st.isValid, isDirty |-> st.isDirty,
   submitCount |-> st.submitCount]

\* C5: after every step, the backends driven by the same calls expose the
\* same FormState (values, errors with their types, touched, dirty,
\* isSubmitting, isValid, isDirty, submitCount).
BackendsAgree == Observable(RhfGetState(rhf)) = Observable(TsGetState(ts))

\* ------------------------------------------------------------------ C6
\* C6: right after reset, whatever its options, no field is touched or
\* dirty, submitCount is 0 and the id registry is empty; the errors are
\* those from before the call with keepErrors and none without it.
ResetClearsAll ==
  [][op'.name = "reset" =>
       LET st == RhfGetState(rhf')
       IN /\ st.touched = {}
          /\ st.dirty = {}
          /\ st.submitCount = 0
          /\ ~rhf'.fieldIds.has
          /\ st.errors = IF op'.x THEN RhfGetState(rhf).errors
                                  ELSE RhfGetState(RhfCreateForm("onSubmit", TRUE)).errors]_vars

\* ------------------------------------------------------------------ C7
\* C7: right after setValue(path, v), in both backends, the path is dirty
\* exactly when v differs from the default value at the path if shouldDirty
\* is not false, and as dirty as before the call if it is false.
DirtyIffDiffers ==
  [][op'.name = "setValue" =>
       LET p == op'.path
       IN IF op'.y
          THEN /\ RhfGetFieldState(rhf', p).isDirty
                    = (getByPath(rhf'.values, p) # getByPath(rhf'.defaultValues, p))
               /\ TsGetFieldState(ts', p).isDirty
                    = (getByPath(ts'.api.values, p) # getByPath(ts'.defaultValues, p))
          ELSE /\ RhfGetFieldState(rhf', p).isDirty = RhfGetFieldState(rhf, p).isDirty
               /\ TsGetFieldState(ts', p).isDirty = TsGetFieldState(ts, p).isDirty]_vars

\* ------------------------------------------------------------------ C8
\* C8: while a validation a mutation or trigger has started has not applied
\* its result yet, getState().isValidating is true.
ValidatingWhilePending ==
  \A i \in DOMAIN rhf.queue :
    rhf.queue[i].k \in {"field", "trigPath", "trigLast", "trigAll", "submitA"} =>
      RhfGetState(rhf).isValidating

\* ------------------------------------------------------------------ C9
\* C9: a subscriber callback that mutates while it is being notified is not
\* invoked again inside that notification.
NoNestedNotification == rhf.nested = 0 /\ ts.nested = 0

\* ----------------------------------------------------------------- C10
\* C10: setValues notifies no subscriber between the writes of its keys, and
\* starts one validation pass with shouldValidate and none without.
SetValuesIsOneStep ==
  [][op'.name = "setValues" =>
       /\ ~rhf'.partial /\ ~ts'.partial
       /\ Len(rhf'.queue) - Len(rhf.queue) = IF op'.x THEN 1 ELSE 0]_vars

\* ----------------------------------------------------------------- C11
\* the sequence s with the element at index `from` taken out and put back
\* at index `to` (indices from 0)
Moved(s, from, to) ==
  [k \in 1..Len(s) |->
     IF k - 1 = to THEN s[from + 1]
     ELSE IF from < to /\ from <= k - 1 /\ k - 1 < to THEN s[k + 1]
     ELSE IF to < from /\ to < k - 1 /\ k - 1 <= from THEN s[k - 1]
     ELSE s[k]]

\* C11: move(from, to) with both indices inside the array applies one and
\* the same permutation to the values and to the identifiers, and generates
\* no identifier.
MoveCarriesIds ==
  [][(op'.name = "move" /\ op'.x /\ IdsComplete) =>
       /\ counter' = counter
       /\ \E from \in 0..(Len(Items) - 1), to \in 0..(Len(Items) - 1) :
            /\ Items' = Moved(Items, from, to)
            /\ FieldIds' = Moved(FieldIds, from, to)]_vars

\* [a,b,c] with ids [i1,i2,i3] has become [b,c,a] with ids [i2,i3,i1]
MovedFirstToLast ==
  /\ op.name = "move" /\ op.x
  /\ Items = <<2, 3, 1>>
  /\ FieldIds = <<2, 3, 1>>
  /\ counter = 3

\* ----------------------------------------------------------------- C12
\* the sequence s without the elements at the indices (from 0) of a set
RECURSIVE WithoutFrom(_, _, _)
WithoutFrom(s, indices, k) ==
  IF k > Len(s) THEN <<>>
  ELSE (IF (k - 1) \in indices THEN <<>> ELSE <<s[k]>>)
       \o WithoutFrom(s, indices, k + 1)

\* C12: remove drops exactly the values and the identifiers at the removed
\* indices; the identifiers that remain keep their order and are stored
\* densely from index 0, and none is generated.
RemoveKeepsOthers ==
  [][(op'.name = "remove" /\ IdsComplete) =>
       /\ counter' = counter
       /\ DOMAIN rhf'.fieldIds.map = 0..(Len(Items') - 1)
       /\ \E indices \in SUBSET (0..(Len(Items) - 1)) :
            /\ Items' = WithoutFrom(Items, indices, 1)
            /\ FieldIds' = WithoutFrom(FieldIds, indices, 1)]_vars

\* [a,b,c] with ids [g1,g2,g3] has become [a,c] with ids [g1,g3]
RemovedMiddle ==
  /\ op.name = "remove"
  /\ Items = <<1, 3>>
  /\ FieldIds = <<1, 3>>
  /\ counter = 3

\* ----------------------------------------------------------------- C13
\* C13: a getFieldArray call that follows another one directly returns the
\* identifiers the first call returned, in the same order, and generates no
\* identifier.
ReadIsIdempotent ==
  [][(op.name = "getFieldArray" /\ op'.name = "getFieldArray") =>
       /\ FieldIds' = FieldIds
       /\ rhf'.fieldIds = rhf.fieldIds
       /\ counter' = counter
       /\ ~op'.x]_vars

\* a second call in a row on an array of two elements or more
ReadTwice ==
  /\ op.name = "getFieldArray" /\ op.y
  /\ Len(Items) >= 2
  /\ Len(FieldIds) = Len(Items)

\* ----------------------------------------------------------------- C14
\* the submit handler runs that have not ended yet
SubmitsRunning(queue) ==
  Cardinality({i \in DOMAIN queue : queue[i].k \in {"submitA", "submitB", "submitC"}})

\* C14: when a run of the submit handler ends (validation passed or failed,
\* onValid returned or threw, with or without onInvalid), getState()
\* reports isSubmitting false, in both backends.
SubmitEndsNotSubmitting ==
  [][/\ SubmitsRunning(rhf'.queue) < SubmitsRunning(rhf.queue)
          => ~RhfGetState(rhf').isSubmitting
     /\ SubmitsRunning(ts'.queue) < SubmitsRunning(ts.queue)
          => ~TsGetState(ts').isSubmitting]_vars

\* every run has ended, the last one of each backend with a throwing onValid
AllSubmitsEnded ==
  /\ nsub = MaxSubmits
  /\ SubmitsRunning(rhf.queue) = 0 /\ SubmitsRunning(ts.queue) = 0
  /\ rhf.last.done /\ rhf.last.throws /\ rhf.last.valid = 1
  /\ ts.last.done /\ ts.last.throws /\ ts.last.valid = 1
  /\ ~RhfGetState(rhf).isSubmitting /\ ~TsGetState(ts).isSubmitting


\* ----------------------------------------------------------------- C15
\* C15: every call of the submit handler raises getState().submitCount by
\* exactly one and leaves isSubmitting true when the validator has been
\* invoked, in both backends; a run that has ended while no other is running
\* leaves isSubmitting false and submitCount equal to the number of calls.
SubmitCountsEachCall ==
  [][/\ nsub' = nsub + 1 =>
          /\ RhfGetState(rhf').submitCount = RhfGetState(rhf).submitCount + 1
          /\ TsGetState(ts').submitCount = TsGetState(ts).submitCount + 1
          /\ RhfGetState(rhf').isSubmitting
          /\ TsGetState(ts').isSubmitting
     /\ (SubmitsRunning(rhf'.queue) = 0 /\ SubmitsRunning(ts'.queue) = 0) =>
          /\ RhfGetState(rhf').submitCount = nsub'
          /\ TsGetState(ts').submitCount = nsub'
          /\ ~RhfGetState(rhf').isSubmitting
          /\ ~TsGetState(ts').isSubmitting]_vars


\* ----------------------------------------------------------------- C16
\* writes, manual errors, blurs, explicit validation and resets of a form
\* with a schema
NextClean ==
  \/ SetValue({"name"}, {FALSE})
  \/ SetError({"name"})
  \/ OnBlur({"name"})
  \/ Trigger({<<"name">>})
  \/ Reset
  \/ Tick
SpecClean == InitMeta /\ [][NextClean]_vars

\* FieldState of a field nothing has happened to
CleanFieldState ==
  [isTouched |-> FALSE, isDirty |-> FALSE, error |-> NoError, isInvalid |-> FALSE]

\* C16: with no validation pending, reset() gives every path its default
\* value and a clean FieldState, and reset(values) gives the defaults with
\* values merged over them, in both backends.
ResetRestoresDefaults ==
  [][(op'.name = "reset" /\ ~op'.x /\ rhf.queue = <<>> /\ ts.queue = <<>>) =>
       \A p \in Paths :
         LET expected == IF op'.y /\ p \in DOMAIN ResetArgsGiven
                         THEN ResetArgsGiven[p] ELSE DefaultValues[p]
         IN /\ getByPath(rhf'.values, p) = expected
            /\ getByPath(ts'.api.values, p) = expected
            /\ RhfGetFieldState(rhf', p) = CleanFieldState
            /\ TsGetFieldState(ts', p) = CleanFieldState]_vars

\* reset() has just cleaned a form whose name field has a metadata entry in
\* both backends (it was written, blurred or given an error)
ResetAfterWrites ==
  /\ op.name = "reset" /\ ~op.x /\ ~op.y
  /\ rhf.queue = <<>> /\ ts.queue = <<>>
  /\ rhf.fieldMeta["name"] # 0
  /\ ts.adapterState.fieldMeta["name"].has
  /\ \A p \in Paths : /\ rhf.values[p] = DefaultValues[p]
                      /\ ts.api.values[p] = DefaultValues[p]
                      /\ RhfGetFieldState(rhf, p) = CleanFieldState
                      /\ TsGetFieldState(ts, p) = CleanFieldState


\* ----------------------------------------------------------------- C17
\* writes of name, manual errors of items, and trigger with a list
\* of paths
InitTrigger == InitWith({"onSubmit"}, {TRUE})
NextTrigger ==
  \/ SetValue({"name"}, {FALSE})
  \/ SetError({"items"})
  \/ Trigger({<<"name">>, <<"items">>, <<"items", "name">>})
  \/ Tick
SpecTrigger == InitTrigger /\ [][NextTrigger]_vars

\* what getState and getFieldState report apart from the errors
ValuesAndFlags(e) ==
  [values |-> RhfGetState(e).values, touched |-> RhfGetState(e).touched,
   dirty |-> RhfGetState(e).dirty]

\* C17: trigger(engine, paths) with listed paths runs the validator on the
\* whole value tree of the call; the call and each of its continuations
\* leave all values and touched/dirty flags alone, a continuation changes
\* the error of its listed path only, and the call resolves to true iff the
\* validator reported no error at a listed path.
TriggerTouchesListedOnly ==
  [][/\ (op'.name = "trigger" /\ op'.x) =>
          LET added == (Len(rhf.queue) + 1)..Len(rhf'.queue)
              listed == {rhf'.queue[i].path : i \in added}
          IN /\ added # {}
             /\ ValuesAndFlags(rhf') = ValuesAndFlags(rhf)
             /\ RhfGetState(rhf').errors = RhfGetState(rhf).errors
             /\ rhf'.queue[Len(rhf'.queue)].ok
                  = (\A p \in listed : p \notin DOMAIN SchemaErrors(rhf.values))
             /\ \A i \in added :
                  rhf'.queue[i].err =
                    IF rhf'.queue[i].path \in DOMAIN SchemaErrors(rhf.values)
                    THEN ValidationErr(SchemaErrors(rhf.values)[rhf'.queue[i].path])
                    ELSE NoError
     /\ (op'.name = "tick" /\ rhf.queue # <<>>
           /\ Head(rhf.queue).k \in {"trigPath", "trigLast", "trigFin"}) =>
          /\ ValuesAndFlags(rhf') = ValuesAndFlags(rhf)
          /\ \A p \in Paths :
               RhfGetFieldState(rhf', p).error =
                 IF Head(rhf.queue).k # "trigFin" /\ p = Head(rhf.queue).path
                 THEN Head(rhf.queue).err
                 ELSE RhfGetFieldState(rhf, p).error]_vars

\* trigger(['name']) has written the validator's error for name while items
\* keeps its manual error, and the call is about to resolve to false
TriggeredNameOnly ==
  /\ op.name = "tick"
  /\ rhf.queue # <<>> /\ Head(rhf.queue).k = "trigFin" /\ ~Head(rhf.queue).ok
  /\ RhfGetFieldState(rhf, "name").error = ValidationErr("required")
  /\ RhfGetFieldState(rhf, "items").error.type \in {"manual", "custom"}


\* ----------------------------------------------------------------- C18
\* the handlers of register('name'), trigger and submit, in every mode
InitMode == InitWith(Modes, {TRUE})
NextMode ==
  \/ OnBlur({"name"})
  \/ OnChange({"name"})
  \/ Trigger({<<"name">>})
  \/ Submit({FALSE}, {FALSE})
  \/ Tick
SpecMode == InitMode /\ [][NextMode]_vars

BlurModes == {"onBlur", "onTouched", "all"}
ChangeModes == {"onChange", "all"}

InitUnsub == InitWith({"onSubmit"}, {TRUE})
NextUnsub ==
  \/ Subscribe
  \/ SubscribeQuitter
  \/ Unsubscribe
  \/ UnsubscribeAgain
  \/ SetValue({"name"}, {TRUE})
  \/ SetError({"name"})
  \/ Tick
SpecUnsub == InitUnsub /\ [][NextUnsub]_vars

InitDestroy == InitWith({"onSubmit"}, {FALSE})
NextDestroy ==
  \/ SetValue({"name"}, {FALSE})
  \/ Register({"name"})
  \/ Subscribe
  \/ GetFieldArray
  \/ ArrAppend
  \/ DestroyForm
SpecDestroy == InitDestroy /\ [][NextDestroy]_vars

\* C20: right after destroyForm the field-metadata map, the id registry and
\* the subscriber set of the engine are empty, in both backends (a second
\* call then has nothing left to change).
DestroyReleasesAll ==
  [][op'.name = "destroyForm" =>
       /\ \A p \in Paths : rhf'.fieldMeta[p] = 0
       /\ ~rhf'.fieldIds.has
       /\ rhf'.subscribers = <<>>
       /\ \A p \in Paths : ~ts'.adapterState.fieldMeta[p].has
       /\ ~ts'.fieldIds.has
       /\ ts'.subscribers = <<>>]_vars


\* ----------------------------------------------------------------- C21
\* C21: right after unregister(engine, path) the path has no metadata (its
\* FieldState is the one of a field nothing has happened to), and the
\* values, the FieldState of every other path, submitCount and the id
\* registry are those from before the call, in both backends.
UnregisterDropsOnlyMeta ==
  [][op'.name = "unregister" =>
       /\ rhf'.fieldMeta[op'.path] = 0
       /\ RhfGetFieldState(rhf', op'.path) = CleanFieldState
       /\ ~ts'.adapterState.fieldMeta[op'.path].has
       /\ TsGetFieldState(ts', op'.path) = CleanFieldState
       /\ rhf'.values = rhf.values
       /\ ts'.api.values = ts.api.values
       /\ \A q \in Paths \ {op'.path} :
            /\ RhfGetFieldState(rhf', q) = RhfGetFieldState(rhf, q)
            /\ TsGetFieldState(ts', q) = TsGetFieldState(ts, q)
       /\ RhfGetState(rhf').submitCount = RhfGetState(rhf).submitCount
       /\ TsGetState(ts').submitCount = TsGetState(ts).submitCount
       /\ rhf'.fieldIds = rhf.fieldIds
       /\ ts'.fieldIds = ts.fieldIds]_vars


\* ----------------------------------------------------------------- C22
\* C22: in the FormState getState returns, isValid is true iff errors is
\* empty, in both backends.
ValidIffNoErrors ==
  /\ RhfGetState(rhf).isValid = (DOMAIN RhfGetState(rhf).errors = {})
  /\ TsGetState(ts).isValid = (DOMAIN TsGetState(ts).errors = {})


\* ----------------------------------------------------------------- C23
\* a registered field is changed in mode onChange, unregistered and read
InitRead == InitWith({"onChange"}, {TRUE})
NextRead ==
  \/ OnChange({"name"})
  \/ Unregister({"name"})
  \/ Subscribe
  \/ Read
  \/ Tick
SpecRead == InitRead /\ [][NextRead]_vars

\* the state of the two engines without what the application observed
\* during the last call
RhfState(e) ==
  [values |-> e.values, fieldMeta |-> e.fieldMeta, heap |-> e.heap,
   fieldIds |-> e.fieldIds, isSubmitting |-> e.isSubmitting,
   isValidating |-> e.isValidating, submitCount |-> e.submitCount,
   subscribers |-> e.subscribers, queue |-> e.queue]
TsState(e) ==
  [api |-> e.api, adapterState |-> e.adapterState, fieldIds |-> e.fieldIds,
   subscribers |-> e.subscribers, queue |-> e.queue]

\* C23: a read changes nothing of the engine's state and notifies nobody;
\* and once a validation of a path has resolved with no error for it, no
\* error is reported for the path.  In both backends.
ReadsArePure ==
  [][/\ op'.name = "getFieldState" =>
          /\ RhfState(rhf') = RhfState(rhf)
          /\ TsState(ts') = TsState(ts)
          /\ rhf'.calls = 0 /\ ts'.calls = 0
     /\ (op'.name = "tick" /\ rhf.queue # <<>> /\ Head(rhf.queue).k = "field"
           /\ Head(rhf.queue).err = NoError) =>
          RhfGetFieldState(rhf', Head(rhf.queue).path).error = NoError
     /\ (op'.name = "onChange" /\ ts'.ran
           /\ op'.path \notin DOMAIN SchemaErrors(ts'.api.values)) =>
          TsGetFieldState(ts', op'.path).error = NoError]_vars


\* ----------------------------------------------------------------- C24
\* C24: setError with a non-empty bare string makes the error of the path
\* {message, type 'manual'}, with a FieldError object it makes it that
\* object, and with an empty string it changes no metadata and notifies
\* nobody.  In both backends.
SetErrorStoresNormalized ==
  [][op'.name = "setError" =>
       IF op'.y
       THEN /\ RhfState(rhf') = RhfState(rhf)
            /\ TsState(ts') = TsState(ts)
            /\ rhf'.calls = 0 /\ ts'.calls = 0
       ELSE LET given == IF op'.x THEN ManualErr("bad")
                         ELSE [message |-> "bad", type |-> "custom"]
            IN /\ RhfGetFieldState(rhf', op'.path).error = given
               /\ TsGetFieldState(ts', op'.path).error = given]_vars


\* ----------------------------------------------------------------- C25
\* the application calls resetIdCounter()
ResetIdCounter ==
  /\ counter > 0
  /\ Step(Observe(rhf), Observe(ts), Op("resetIdCounter", "", FALSE, FALSE))
  /\ counter' = resetIdCounter(counter)
  /\ UNCHANGED nsub

\* identifiers are generated for an array that grows and shrinks, and the
\* exported id utilities are used
NextIds ==
  GetFieldArray \/ ArrAppend \/ ArrRemove \/ ResetIdCounter \/ Tick
SpecIds == InitArray /\ [][NextIds]_vars

\* C25: generateId never returns an identifier it returned before.  The
\* identifiers a step generates are counter + 1 .. counter', so this is: the
\* counter never goes back, and the identifiers the registry of the array
\* holds are pairwise different.
IdsNeverReused ==
  [][/\ counter' >= counter
     /\ \A i, j \in DOMAIN rhf'.fieldIds.map :
          i # j => rhf'.fieldIds.map[i] # rhf'.fieldIds.map[j]]_vars


\* ----------------------------------------------------------------- C26
\* calls on the second engine of rhfAdapter: setValue(other, 'items', v)
\* and getFieldArray(other, 'items')
OtherSetItems ==
  \E v \in {<<1>>, <<1, 2>>} :
    /\ other' = RhfCollect(RhfSetValue(Observe(other), ArrayPath, v,
                                       FALSE, FALSE, TRUE))
    /\ op' = Op("other.setValue", ArrayPath, FALSE, TRUE)
    /\ UNCHANGED <<rhf, ts, counter, nsub, calc>>

OtherGetFieldArray ==
  LET fa == FaEnsure(RhfFa(other, counter))
  IN /\ fa.ctr <= MaxId
     /\ other' = RhfCollect(RhfGetFieldArray(Observe(other), counter))
     /\ op' = Op("other.getFieldArray", ArrayPath, fa.ctr > counter, FALSE)
     /\ counter' = fa.ctr
     /\ UNCHANGED <<rhf, ts, nsub, calc>>

OtherOps == {"other.setValue", "other.getFieldArray"}

\* two engines created from the same defaultValues, each with its array
NextTwo ==
  \/ GetFieldArray \/ ArrAppend \/ ArrRemove \/ Tick
  \/ OtherSetItems \/ OtherGetFieldArray
SpecTwo == InitArray /\ [][NextTwo]_vars

\* what getState and a getFieldArray call made now return for engine e
Returned(e, ctr) ==
  [state |-> RhfGetState(e), fields |-> FaFields(RhfFa(e, ctr))]

\* C26: a call on one engine changes nothing of what the other engine
\* returns from getState, getValue and getFieldArray: its values, its
\* metadata and the identifiers of its elements.
EnginesIsolated ==
  [][/\ op'.name \notin OtherOps =>
          Returned(other', counter') = Returned(other, counter)
     /\ op'.name \in OtherOps =>
          Returned(rhf', counter') = Returned(rhf, counter)]_vars


\* ----------------------------------------------------------------- C27
\* createForm({ mode: 'onSubmit', reValidateMode: 'onChange', schema }):
\* createForm keeps config.mode and config.schema and reads no
\* reValidateMode, so the engines are those of InitWith({"onSubmit"}, {TRUE}).
InitRevalidate == InitWith({"onSubmit"}, {TRUE})
NextRevalidate ==
  \/ OnChange({"name"})
  \/ Submit({FALSE}, {TRUE})
  \/ Tick
SpecRevalidate == InitRevalidate /\ [][NextRevalidate]_vars

\* C27: with mode onSubmit and reValidateMode onChange, once a run of the
\* submit handler has validated the form and ended, every onChange of the
\* registered field invokes the validator again, in both backends.
RevalidatesAfterSubmit ==
  [][(/\ op'.name = "onChange"
      /\ rhf.last.done /\ ts.last.done
      /\ SubmitsRunning(rhf.queue) = 0 /\ SubmitsRunning(ts.queue) = 0) =>
       rhf'.ran /\ ts'.ran]_vars


\* ============================================== path.ts on nested trees
\* The engines above use top-level paths only; here a value is a node with
\* the reference of its container (NoRef for a primitive), its typeof kind
\* and its own properties, and a path is the sequence of its split('.') keys.
\* A reference says which expression made the container: one of the caller
\* ("input"), structuredClone, a spread copy or a literal [] or {}.
MaxDepth == 3
Keys == {"a", "b", "0"}
NoKids == [k \in {} |-> 0]
NoRef == [id |-> 0, made |-> "none"]
InputRef(n) == [id |-> n, made |-> "input"]
Undef == [ref |-> NoRef, kind |-> "undefined", val |-> 0, kids |-> NoKids]
Null == [ref |-> NoRef, kind |-> "null", val |-> 0, kids |-> NoKids]
Num(n) == [ref |-> NoRef, kind |-> "number", val |-> n, kids |-> NoKids]
Obj(ref, kids) == [ref |-> ref, kind |-> "object", val |-> 0, kids |-> kids]
Arr(ref, kids) == [ref |-> ref, kind |-> "array", val |-> 0, kids |-> kids]
Containers == {"object", "array"}

\* /^\d+$/.test(key)
IsIndex(key) == key \in {"0"}
\* node[key]
Child(node, key) == IF key \in DOMAIN node.kids THEN node.kids[key] ELSE Undef
\* node[key] = x, on a copy the caller owns
Put(node, key, x) ==
  [node EXCEPT !.kids = [k \in DOMAIN node.kids \cup {key} |->
                           IF k = key THEN x ELSE node.kids[k]]]
\* delete node[key]
Del(node, key) ==
  [node EXCEPT !.kids = [k \in DOMAIN node.kids \ {key} |-> node.kids[k]]]

\* structuredClone: a deep copy, every container a new reference
RECURSIVE structuredClone(_)
structuredClone(node) ==
  IF node.kind \in Containers
  THEN [node EXCEPT !.ref = [id |-> node.ref.id, made |-> "structuredClone"],
                    !.kids = [k \in DOMAIN node.kids |->
                                structuredClone(node.kids[k])]]
  ELSE node
\* [...x] and {...x}: a new container holding the same children
ShallowCopy(node) ==
  IF node.kind \in Containers
  THEN [node EXCEPT !.ref = [id |-> node.ref.id, made |-> "spread"]]
  ELSE Obj([id |-> 0, made |-> "spread"], NoKids)

\* getByPath: the loop over keys from current
RECURSIVE TreeGetByPath(_, _)
TreeGetByPath(current, keys) ==
  IF keys = <<>> THEN current
  ELSE IF current.kind \in {"null", "undefined"} THEN Undef
  ELSE IF current.kind \in Containers
       THEN TreeGetByPath(Child(current, Head(keys)), Tail(keys))
       ELSE Undef

\* setByPath making {} for every missing container
RECURSIVE SetLoopObjects(_, _, _)
SetLoopObjects(current, keys, value) ==
  IF Len(keys) = 1 THEN Put(current, keys[1], value)
  ELSE LET key == keys[1]
           made == Obj([id |-> Len(keys), made |-> "literal"], NoKids)
           at == Child(current, key)
           next == IF at.kind \notin Containers THEN made ELSE ShallowCopy(at)
       IN  Put(current, key, SetLoopObjects(next, Tail(keys), value))

\* setByPath: the loop over the keys but the last, then the assignment;
\* current is the clone or a container made in the step before
RECURSIVE SetLoop(_, _, _)
SetLoop(current, keys, value) ==
  IF Len(keys) = 1 THEN Put(current, keys[1], value)
  ELSE LET key == keys[1]
           isNextKeyArrayIndex == IsIndex(keys[2])
           made == IF isNextKeyArrayIndex
                   THEN Arr([id |-> Len(keys), made |-> "literal"], NoKids)
                   ELSE Obj([id |-> Len(keys), made |-> "literal"], NoKids)
           at == Child(current, key)
           next == IF at.kind \in {"undefined", "null"} THEN made
                   ELSE IF at.kind \notin Containers THEN made
                   ELSE ShallowCopy(at)
       IN  Put(current, key, SetLoop(next, Tail(keys), value))
TreeSetByPath(obj, keys, value) ==
  IF keys = <<>> THEN value ELSE SetLoop(structuredClone(obj), keys, value)


\* deleteByPath: the loop over the keys but the last (returning the result
\* as it is where the path ends early), then the delete
RECURSIVE DeleteLoop(_, _)
DeleteLoop(current, keys) ==
  IF Len(keys) = 1 THEN Del(current, keys[1])
  ELSE LET key == keys[1]
           at == Child(current, key)
       IN  IF at.kind = "undefined" \/ at.kind \notin (Containers \cup {"null"})
           THEN current
           ELSE Put(current, key, DeleteLoop(ShallowCopy(at), Tail(keys)))
TreeDeleteByPath(obj, keys) ==
  IF keys = <<>> THEN Obj([id |-> 0, made |-> "literal"], NoKids)
  ELSE DeleteLoop(structuredClone(obj), keys)

\* ------------------------------------------------- the calls looked at
\* the sub-trees a form value holds under one key: nothing, null, a
\* primitive, and objects and arrays one and two levels deep
SubTrees(n) ==
  { Undef, Null, Num(1),
    Obj(InputRef(n), NoKids),
    Obj(InputRef(n), [k \in {"b"} |-> Num(1)]),
    Arr(InputRef(n), [k \in {"0"} |-> Num(1)]),
    Obj(InputRef(n), [k \in {"a", "b"} |->
                        Obj(InputRef(n + IF k = "a" THEN 1 ELSE 2),
                            [j \in {"b"} |-> Num(2)])]),
    Arr(InputRef(n), [k \in {"0"} |->
                        Obj(InputRef(n + 1), [j \in {"a"} |-> Num(2)])]) }
Trees ==
  { Obj(InputRef(1), [k \in {"a", "b"} |-> IF k = "a" THEN x ELSE y]) :
      x \in SubTrees(2), y \in SubTrees(5) }
RECURSIVE PathsOfLen(_)
PathsOfLen(n) ==
  IF n = 0 THEN {<<>>}
  ELSE {<<k>> \o q : k \in Keys, q \in PathsOfLen(n - 1)}
KeyPaths == UNION {PathsOfLen(n) : n \in 1..MaxDepth}
NewValues == {Undef, Num(7), Obj(InputRef(9), NoKids)}

InitPath ==
  /\ rhf = RhfCreateForm("onSubmit", FALSE)
  /\ ts = TsCreateForm("onSubmit", FALSE)
  /\ other = RhfCreateForm("onSubmit", FALSE)
  /\ counter = 0
  /\ op = Op("createForm", "", FALSE, FALSE)
  /\ nsub = 0
  /\ calc \in {[stage |-> "args", obj |-> t, path |-> p, value |-> v,
                out |-> Undef] : t \in Trees, p \in KeyPaths, v \in NewValues}

\* setByPath(obj, path, value)
CallSetByPath ==
  /\ calc.stage = "args"
  /\ calc' = [calc EXCEPT !.stage = "setByPath",
                          !.out = TreeSetByPath(calc.obj, calc.path, calc.value)]
  /\ UNCHANGED <<rhf, ts, counter, op, nsub, other>>

\* deleteByPath(obj, path)
CallDeleteByPath ==
  /\ calc.stage = "args"
  /\ calc.value = Undef
  /\ calc' = [calc EXCEPT !.stage = "deleteByPath",
                          !.out = TreeDeleteByPath(calc.obj, calc.path)]
  /\ UNCHANGED <<rhf, ts, counter, op, nsub, other>>

NextPath == CallSetByPath \/ CallDeleteByPath
SpecPath == InitPath /\ [][NextPath]_vars

\* ------------------------------------------------------------------ C28
\* the node of tree at keys, read property by property
RECURSIVE NodeAt(_, _)
NodeAt(tree, keys) ==
  IF keys = <<>> THEN tree ELSE NodeAt(Child(tree, Head(keys)), Tail(keys))
\* setByPath found no container at the prefix of n keys of the path
MissingAt(n) ==
  NodeAt(calc.obj, SubSeq(calc.path, 1, n)).kind \notin Containers
\* C28: after setByPath(T, p, v), getByPath of the result at p is v itself
\* (the same reference where v is a container), and every intermediate
\* container that T did not hold is an array exactly when the next key of p
\* is numeric, and an object otherwise.
PathRoundTrip ==
  calc.stage = "setByPath" =>
    /\ TreeGetByPath(calc.out, calc.path) = calc.value
    /\ \A n \in 1..(Len(calc.path) - 1) :
         MissingAt(n) =>
           NodeAt(calc.out, SubSeq(calc.path, 1, n)).kind =
             (IF IsIndex(calc.path[n + 1]) THEN "array" ELSE "object")

\* setByPath(T, 'a.0.b', v) where T.a is a primitive and v is an object: the
\* result holds an array at a, an object at a.0 and v at a.0.b
RoundTripThroughScalar ==
  /\ calc.stage = "setByPath"
  /\ calc.path = <<"a", "0", "b">>
  /\ calc.obj.kids["a"].kind = "number"
  /\ calc.value.kind = "object"
  /\ NodeAt(calc.out, <<"a">>).kind = "array"
  /\ NodeAt(calc.out, <<"a", "0">>).kind = "object"
  /\ NodeAt(calc.out, <<"a", "0", "b">>).ref = InputRef(9)

\* ------------------------------------------------------------------ C29
\* every child of node that the path does not go through is in result as it
\* is in node, reference included, level by level along keys
RECURSIVE SharesOffPath(_, _, _)
SharesOffPath(node, result, keys) ==
  \A k \in DOMAIN node.kids :
    IF keys # <<>> /\ k = Head(keys)
    THEN (Len(keys) > 1 /\ node.kids[k].kind \in Containers
          /\ Child(result, k).kind \in Containers)
           => SharesOffPath(node.kids[k], Child(result, k), Tail(keys))
    ELSE Child(result, k) = node.kids[k]
\* the containers the call assigned into or deleted from: those of the
\* result at the proper prefixes of the path
WrittenRefs ==
  { NodeAt(calc.out, SubSeq(calc.path, 1, n)).ref :
      n \in 0..(Len(calc.path) - 1) } \ {NoRef}
\* C29: setByPath and deleteByPath write into no container of their input,
\* and every sub-tree of the input off the path from the root to p is in
\* the result as the very same reference.
SharesUntouchedSubtrees ==
  calc.stage \in {"setByPath", "deleteByPath"} =>
    /\ \A r \in WrittenRefs : r.made # "input"
    /\ SharesOffPath(calc.obj, calc.out, calc.path)
\* the first half alone
NeverWritesInput ==
  calc.stage \in {"setByPath", "deleteByPath"} =>
    \A r \in WrittenRefs : r.made # "input"


\* ============================================================ compare.ts
NaN == [ref |-> NoRef, kind |-> "nan", val |-> 0, kids |-> NoKids]
\* typeof x
TypeOf(x) ==
  CASE x.kind \in {"object", "array", "null"} -> "object"
    [] x.kind \in {"number", "nan"} -> "number"
    [] OTHER -> "undefined"
\* a === b: containers by reference, primitives by value, NaN never
StrictEq(a, b) ==
  IF a.kind \in Containers \/ b.kind \in Containers
  THEN a.kind \in Containers /\ b.kind \in Containers /\ a.ref = b.ref
  ELSE a.kind = b.kind /\ a.val = b.val /\ a.kind # "nan"
\* Object.keys(x): index keys first, then the others as inserted
KeyOrder == <<"0", "a", "b">>
KeysOf(x) == SelectSeq(KeyOrder, LAMBDA k : k \in DOMAIN x.kids)

RECURSIVE deepEqual(_, _)
deepEqual(a, b) ==
  IF StrictEq(a, b) THEN TRUE
  ELSE IF a.kind = "null" \/ b.kind = "null" THEN StrictEq(a, b)
  ELSE IF TypeOf(a) # TypeOf(b) THEN FALSE
  ELSE IF TypeOf(a) # "object" THEN FALSE
  ELSE IF (a.kind = "array") # (b.kind = "array") THEN FALSE
  ELSE /\ Len(KeysOf(a)) = Len(KeysOf(b))
       /\ \A k \in Range(KeysOf(a)) : deepEqual(Child(a, k), Child(b, k))

\* getDirtyPaths: DirtyLoop is its for loop over the keys left of allKeys
RECURSIVE getDirtyPaths(_, _, _)
RECURSIVE DirtyLoop(_, _, _, _)
DirtyLoop(original, current, prefix, keys) ==
  IF keys = <<>> THEN <<>>
  ELSE LET key == Head(keys)
           path == Append(prefix, key)
           origValue == Child(original, key)
           currValue == Child(current, key)
           here ==
             IF deepEqual(origValue, currValue) THEN <<>>
             ELSE <<path>> \o
                  (IF origValue.kind = "object" /\ currValue.kind = "object"
                   THEN getDirtyPaths(origValue, currValue, path)
                   ELSE <<>>)
       IN  here \o DirtyLoop(original, current, prefix, Tail(keys))
getDirtyPaths(original, current, prefix) ==
  LET allKeys == KeysOf(original) \o
                 SelectSeq(KeysOf(current),
                           LAMBDA k : k \notin Range(KeysOf(original)))
  IN  DirtyLoop(original, current, prefix, allKeys)
\* getDirtyFields: result[path] = true for each of the paths
getDirtyFields(original, current) ==
  [p \in Range(getDirtyPaths(original, current, <<>>)) |-> TRUE]

\* ------------------------------------------------- the calls looked at
\* the paths of tree that hold a primitive or null
LeafPaths(tree) ==
  {p \in KeyPaths : NodeAt(tree, p).kind \in {"number", "null", "nan"}}
NanTrees ==
  { Obj(InputRef(1), [k \in {"a", "b"} |-> IF k = "a" THEN x ELSE NaN]) :
      x \in SubTrees(2) }
LeafValues == {Num(1), Num(7), Null}
\* original and current are one tree (path <<>>), or current is original
\* with another primitive at one of its leaf paths
DirtyArgs ==
  {[stage |-> "args", obj |-> t, cur |-> t, path |-> <<>>, out |-> Undef] :
     t \in Trees \cup NanTrees}
  \cup
  UNION {{[stage |-> "args", obj |-> x[1], cur |-> TreeSetByPath(x[1], p, x[2]),
           path |-> p, out |-> Undef] :
            p \in {q \in LeafPaths(x[1]) : NodeAt(x[1], q) # x[2]}} :
         x \in Trees \X LeafValues}
InitDirty ==
  /\ rhf = RhfCreateForm("onSubmit", FALSE)
  /\ ts = TsCreateForm("onSubmit", FALSE)
  /\ other = RhfCreateForm("onSubmit", FALSE)
  /\ counter = 0
  /\ op = Op("createForm", "", FALSE, FALSE)
  /\ nsub = 0
  /\ calc \in DirtyArgs

\* getDirtyPaths(original, current)
CallGetDirtyPaths ==
  /\ calc.stage = "args"
  /\ calc' = [calc EXCEPT !.stage = "getDirtyPaths",
                          !.out = getDirtyPaths(calc.obj, calc.cur, <<>>)]
  /\ UNCHANGED <<rhf, ts, counter, op, nsub, other>>
\* getDirtyFields(original, current)
CallGetDirtyFields ==
  /\ calc.stage = "args"
  /\ calc' = [calc EXCEPT !.stage = "getDirtyFields",
                          !.out = getDirtyFields(calc.obj, calc.cur)]
  /\ UNCHANGED <<rhf, ts, counter, op, nsub, other>>
NextDirty == CallGetDirtyPaths \/ CallGetDirtyFields
SpecDirty == InitDirty /\ [][NextDirty]_vars

\* ------------------------------------------------------------------ C30
\* p and its ancestor paths
WithAncestors(p) == {SubSeq(p, 1, n) : n \in 1..Len(p)}
\* C30: getDirtyPaths(T, T) is empty; for T' that differs from T at exactly
\* one leaf path p, getDirtyPaths(T, T') holds exactly p and the ancestor
\* paths of p; getDirtyFields maps exactly the same paths to true.
DirtyPathsExact ==
  /\ calc.stage = "getDirtyPaths" =>
       Range(calc.out) = WithAncestors(calc.path)
  /\ calc.stage = "getDirtyFields" =>
       /\ DOMAIN calc.out = WithAncestors(calc.path)
       /\ \A p \in DOMAIN calc.out : calc.out[p]
\* the same over the trees without arrays and without NaN
DirtyPathsExactPlain ==
  (/\ \A p \in KeyPaths : NodeAt(calc.obj, p).kind \notin {"array", "nan"}
   /\ calc.stage \in {"getDirtyPaths", "getDirtyFields"})
    => DirtyPathsExact


\* ====================================== errors.ts: list and tree of errors
\* A string is a leaf of kind "string" whose val numbers the text (1, 2, ..);
\* a ValidationError is [path, message, type] with path the split keys.
MaxErrors == 2
Str(n) == [ref |-> NoRef, kind |-> "string", val |-> n, kids |-> NoKids]
\* { message: error.message, type: error.type }
FieldErrorOf(error) ==
  Obj([id |-> 0, made |-> "literal"],
      [k \in {"message", "type"} |->
         IF k = "message" THEN Str(error.message) ELSE Str(error.type)])
\* validationErrorsToFormErrors: the loop over the errors left, from result
RECURSIVE ToFormErrorsLoop(_, _)
ToFormErrorsLoop(result, errors) ==
  IF errors = <<>> THEN result
  ELSE ToFormErrorsLoop(
         TreeSetByPath(result, Head(errors).path, FieldErrorOf(Head(errors))),
         Tail(errors))
validationErrorsToFormErrors(errors) ==
  ToFormErrorsLoop(Obj([id |-> 0, made |-> "literal"], NoKids), errors)

\* Object.entries(errors): index keys first, then the others (their order
\* among themselves follows the insertions; the list is compared as a set)
EntryOrder == <<"0", "message", "type", "a", "b">>
EntriesOf(x) == SelectSeq(EntryOrder, LAMBDA k : k \in DOMAIN x.kids)
\* the text a FieldError member holds, 0 where it holds no string
TextOf(x) == IF x.kind = "string" THEN x.val ELSE 0
\* formErrorsToValidationErrors: ToListLoop is its loop over the entries left
RECURSIVE formErrorsToValidationErrors(_, _)
RECURSIVE ToListLoop(_, _, _)
ToListLoop(errors, prefix, keys) ==
  IF keys = <<>> THEN <<>>
  ELSE LET key == Head(keys)
           value == errors.kids[key]
           path == Append(prefix, key)
           here ==
             IF value.kind \notin Containers THEN <<>>
             ELSE IF "message" \in DOMAIN value.kids
                     /\ value.kids["message"].kind = "string"
                  THEN <<[path |-> path,
                          message |-> value.kids["message"].val,
                          type |-> TextOf(Child(value, "type"))]>>
                  ELSE formErrorsToValidationErrors(value, path)
       IN  here \o ToListLoop(errors, prefix, Tail(keys))
formErrorsToValidationErrors(errors, prefix) ==
  ToListLoop(errors, prefix, EntriesOf(errors))

\* ------------------------------------------------- the calls looked at
ErrorPaths == {p \in KeyPaths : Len(p) <= 2}
ErrorEntries ==
  {[path |-> p, message |-> m, type |-> 1] : p \in ErrorPaths, m \in {1, 2}}
RECURSIVE ListsOfLen(_)
ListsOfLen(n) ==
  IF n = 0 THEN {<<>>}
  ELSE {<<e>> \o l : e \in ErrorEntries, l \in ListsOfLen(n - 1)}
\* the lists of up to MaxErrors entries with pairwise distinct paths
ErrorLists ==
  {l \in UNION {ListsOfLen(n) : n \in 0..MaxErrors} :
     \A i, j \in DOMAIN l : i # j => l[i].path # l[j].path}
InitErrors ==
  /\ rhf = RhfCreateForm("onSubmit", FALSE)
  /\ ts = TsCreateForm("onSubmit", FALSE)
  /\ other = RhfCreateForm("onSubmit", FALSE)
  /\ counter = 0
  /\ op = Op("createForm", "", FALSE, FALSE)
  /\ nsub = 0
  /\ calc \in {[stage |-> "args", list |-> l, tree |-> Undef, out |-> <<>>] :
                 l \in ErrorLists}
\* validationErrorsToFormErrors(L)
CallToFormErrors ==
  /\ calc.stage = "args"
  /\ calc' = [calc EXCEPT !.stage = "tree",
                          !.tree = validationErrorsToFormErrors(calc.list)]
  /\ UNCHANGED <<rhf, ts, counter, op, nsub, other>>
\* formErrorsToValidationErrors of the tree made before
CallToValidationErrors ==
  /\ calc.stage = "tree"
  /\ calc' = [calc EXCEPT !.stage = "list",
                          !.out = formErrorsToValidationErrors(calc.tree, <<>>)]
  /\ UNCHANGED <<rhf, ts, counter, op, nsub, other>>
NextErrors == CallToFormErrors \/ CallToValidationErrors
SpecErrors == InitErrors /\ [][NextErrors]_vars

\* ------------------------------------------------------------------ C31
\* C31: for a list L of entries with pairwise distinct paths,
\* formErrorsToValidationErrors(validationErrorsToFormErrors(L)) holds
\* exactly the (path, message, type) triples of L.
ErrorRoundTrip ==
  calc.stage = "list" => Range(calc.out) = Range(calc.list)
\* one path of the list is a proper prefix of another
HasPrefixPair(l) ==
  \E i, j \in DOMAIN l :
    /\ Len(l[i].path) < Len(l[j].path)
    /\ SubSeq(l[j].path, 1, Len(l[i].path)) = l[i].path
\* the same over the lists in which no path is a prefix of another
ErrorRoundTripNoPrefix ==
  (calc.stage = "list" /\ ~HasPrefixPair(calc.list)) => ErrorRoundTrip


\* ------------------------------------------------- deepEqual, called
\* the values compared: primitives, null, undefined, the objects over the
\* keys a and b (a key may hold undefined), short arrays, and objects and
\* arrays holding one of these; n is the reference of the outer container.
\* b is a itself or a value of other references.
FlatValues == {Undef, Null, Num(1), Num(2)}
FlatObjects(n) ==
  UNION {[ks -> FlatValues] : ks \in SUBSET {"a", "b"}}
FlatContainers(n) ==
  {Obj(InputRef(n), kids) : kids \in FlatObjects(n)}
  \cup {Arr(InputRef(n), NoKids)}
  \cup {Arr(InputRef(n), [k \in {"0"} |-> x]) : x \in FlatValues}
NestedContainers(n) ==
  {Obj(InputRef(n), [k \in {"a"} |-> x]) :
     x \in {Obj(InputRef(n + 2), [j \in {"a"} |-> Undef]),
            Obj(InputRef(n + 2), [j \in {"b"} |-> Undef]),
            Obj(InputRef(n + 2), [j \in {"b"} |-> Num(1)]),
            Arr(InputRef(n + 2), [j \in {"0"} |-> Num(1)])}}
CmpValues(n) == FlatValues \cup FlatContainers(n) \cup NestedContainers(n)
InitCompare ==
  /\ rhf = RhfCreateForm("onSubmit", FALSE)
  /\ ts = TsCreateForm("onSubmit", FALSE)
  /\ other = RhfCreateForm("onSubmit", FALSE)
  /\ counter = 0
  /\ op = Op("createForm", "", FALSE, FALSE)
  /\ nsub = 0
  /\ \E a \in CmpValues(1) :
       \E b \in {a} \cup CmpValues(2) :
         calc = [stage |-> "args", obj |-> a, cur |-> b,
                 out |-> [ab |-> FALSE, ba |-> FALSE]]
\* deepEqual(a, b) and deepEqual(b, a)
CallDeepEqual ==
  /\ calc.stage = "args"
  /\ calc' = [calc EXCEPT !.stage = "deepEqual",
                          !.out = [ab |-> deepEqual(calc.obj, calc.cur),
                                   ba |-> deepEqual(calc.cur, calc.obj)]]
  /\ UNCHANGED <<rhf, ts, counter, op, nsub, other>>
NextCompare == CallDeepEqual
SpecCompare == InitCompare /\ [][NextCompare]_vars

\* ------------------------------------------------------------------ C32
\* structural equality: the same kind, the same primitive, and for
\* containers the same keys (an array's indices give its length) holding
\* structurally equal members
RECURSIVE StructEq(_, _)
StructEq(a, b) ==
  /\ a.kind = b.kind
  /\ a.kind \notin Containers => a.val = b.val
  /\ a.kind \in Containers =>
       /\ DOMAIN a.kids = DOMAIN b.kids
       /\ \A k \in DOMAIN a.kids : StructEq(a.kids[k], b.kids[k])
\* C32: deepEqual(a, b) is true exactly when a and b are structurally
\* equal, objects holding undefined-valued keys included, and
\* deepEqual(a, b) = deepEqual(b, a).
DeepEqualIsStructural ==
  calc.stage = "deepEqual" =>
    /\ calc.out.ab = StructEq(calc.obj, calc.cur)
    /\ calc.out.ab = calc.out.ba
\* no object of the two values holds undefined under a key
NoUndefinedKeys ==
  \A p \in {<<>>} \cup KeyPaths :
    \A x \in {NodeAt(calc.obj, p), NodeAt(calc.cur, p)} :
      \A k \in DOMAIN x.kids : x.kids[k].kind # "undefined"
\* the same over the values without undefined-valued keys
DeepEqualIsStructuralDefined ==
  (calc.stage = "deepEqual" /\ NoUndefinedKeys) => DeepEqualIsStructural


\* ------------------------------------------------------------------ C33
\* hasPath: the loop over the keys from current
RECURSIVE TreeHasPath(_, _)
TreeHasPath(current, keys) ==
  IF keys = <<>> THEN TRUE
  ELSE IF current.kind \in {"null", "undefined"} THEN FALSE
  ELSE IF current.kind \in Containers /\ Head(keys) \in DOMAIN current.kids
       THEN TreeHasPath(current.kids[Head(keys)], Tail(keys))
       ELSE FALSE
\* p is q or an ancestor path of q
IsPrefix(p, q) == Len(p) <= Len(q) /\ SubSeq(q, 1, Len(p)) = p
\* C33: deleteByPath(T, p) for a path T does not have (a path through a
\* null, undefined or primitive intermediate included) returns a tree
\* structurally equal to T; for a path T has, the result does not have p
\* and every path that is neither on the way to p nor below it is as in T.
DeleteMissingIsIdentity ==
  calc.stage = "deleteByPath" =>
    IF TreeHasPath(calc.obj, calc.path)
    THEN /\ ~TreeHasPath(calc.out, calc.path)
         /\ \A q \in KeyPaths :
              (~IsPrefix(q, calc.path) /\ ~IsPrefix(calc.path, q)) =>
                /\ TreeHasPath(calc.out, q) = TreeHasPath(calc.obj, q)
                /\ StructEq(NodeAt(calc.out, q), NodeAt(calc.obj, q))
    ELSE StructEq(calc.out, calc.obj)
\* the path goes through a null held by the tree
ThroughNull ==
  \E n \in 1..(Len(calc.path) - 1) :
    /\ TreeHasPath(calc.obj, SubSeq(calc.path, 1, n))
    /\ NodeAt(calc.obj, SubSeq(calc.path, 1, n)).kind = "null"
\* the same over the paths that go through no null
DeleteMissingIsIdentityNoNull ==
  (calc.stage = "deleteByPath" /\ ~ThroughNull) => DeleteMissingIsIdentity


\* ------------------------------------------------------------------ C34
\* C34: once getFieldArray('items') has been called, after every sequence
\* of field-array operations with indices inside the array the id map has
\* exactly the keys 0..n-1, n the length of the array, and its identifiers
\* are pairwise distinct.
IdMapAligned ==
  rhf.fieldIds.has =>
    /\ DOMAIN rhf.fieldIds.map = 0..(Len(Items) - 1)
    /\ \A i, j \in DOMAIN rhf.fieldIds.map :
         i # j => rhf.fieldIds.map[i] # rhf.fieldIds.map[j]
\* a remove left two elements, with two distinct ids at the keys 0 and 1
AlignedAfterRemove ==
  /\ op.name = "remove"
  /\ Len(Items) = 2
  /\ DOMAIN rhf.fieldIds.map = {0, 1}
  /\ rhf.fieldIds.map[0] # rhf.fieldIds.map[1]


\* ------------------------------------------------------------------ C35
\* validating writes and explicit validation of one field, resets, and the
\* continuations
NextResetRace ==
  \/ SetValue({"name"}, {TRUE})
  \/ Trigger({<<"name">>})
  \/ Reset
  \/ Tick
SpecResetRace == InitMeta /\ [][NextResetRace]_vars

\* every field of both backends has the clean FieldState
AllFieldsClean(r, t) ==
  \A p \in Paths :
    /\ RhfGetFieldState(r, p) = CleanFieldState
    /\ TsGetFieldState(t, p) = CleanFieldState
\* C35: when reset() without keepErrors was called while one validation had
\* not yet applied its result, and that validation then settles, every
\* field is untouched, clean and without error, in both backends.
ResetWinsOverPending ==
  [][(/\ op.name = "reset" /\ ~op.x
      /\ Len(rhf.queue) <= 1 /\ Len(ts.queue) <= 1
      /\ op'.name = "tick"
      /\ rhf'.queue = <<>> /\ ts'.queue = <<>>)
       => AllFieldsClean(rhf', ts')]_vars
\* the same for each backend alone
ResetWinsOverPendingRhf ==
  [][(/\ op.name = "reset" /\ ~op.x /\ Len(rhf.queue) <= 1
      /\ op'.name = "tick" /\ rhf'.queue = <<>>)
       => \A p \in Paths : RhfGetFieldState(rhf', p) = CleanFieldState]_vars
ResetWinsOverPendingTs ==
  [][(/\ op.name = "reset" /\ ~op.x /\ Len(ts.queue) <= 1
      /\ op'.name = "tick" /\ ts'.queue = <<>>)
       => \A p \in Paths : TsGetFieldState(ts', p) = CleanFieldState]_vars


\* ------------------------------------------------------------------ C36
\* validating writes and explicit validation of one field, unregister,
\* destroyForm, and the continuations
NextUnregisterRace ==
  \/ SetValue({"name"}, {TRUE})
  \/ Trigger({<<"name">>})
  \/ Unregister({"name"})
  \/ DestroyForm
  \/ Tick
SpecUnregisterRace == InitMeta /\ [][NextUnregisterRace]_vars

\* C36: a continuation that runs right after unregister(engine, 'name') or
\* destroyForm(engine), i.e. one of a validation started before that call,
\* leaves name without a metadata record, in both backends.
UnregisterSurvivesPending ==
  [][(op.name \in {"unregister", "destroyForm"} /\ op'.name = "tick") =>
       /\ rhf'.fieldMeta["name"] = 0
       /\ ~ts'.adapterState.fieldMeta["name"].has]_vars
\* the same for each backend alone
UnregisterSurvivesPendingRhf ==
  [][(op.name \in {"unregister", "destroyForm"} /\ op'.name = "tick") =>
       rhf'.fieldMeta["name"] = 0]_vars
UnregisterSurvivesPendingTs ==
  [][(op.name \in {"unregister", "destroyForm"} /\ op'.name = "tick") =>
       ~ts'.adapterState.fieldMeta["name"].has]_vars


\* ------------------------------------------------------------------ C37
\* submit handlers and trigger calls of a form with a schema, overlapping
NextBusy ==
  \/ Submit({FALSE}, {FALSE})
  \/ Trigger({<<>>, <<"name">>})
  \/ Tick
SpecBusy == InitMeta /\ [][NextBusy]_vars

\* the trigger calls of the custom-store engine that have not returned yet,
\* the one a submit handler makes included
TriggersRunning(queue) ==
  Cardinality({i \in DOMAIN queue :
                 queue[i].k \in {"trigLast", "trigFin", "trigAll", "submitA"}})
\* C37: while a submit handler has not completed getState().isSubmitting is
\* true, and while a trigger call has not completed isValidating is true,
\* also when another handler or call of the same engine has completed in
\* between.
BusyFlagsTruthful ==
  /\ SubmitsRunning(rhf.queue) > 0 => RhfGetState(rhf).isSubmitting
  /\ SubmitsRunning(ts.queue) > 0 => TsGetState(ts).isSubmitting
  /\ TriggersRunning(rhf.queue) > 0 => RhfGetState(rhf).isValidating


\* ------------------------------------------------------------------ C38
\* reset() by an application that keeps the handle getFieldArray gave it
\* before: the Map the handle captured is no longer the one in fieldIds
ResetHolding ==
  /\ rhf.fieldIds.has
  /\ Step([RhfReset(Observe(rhf), NoErrs, FALSE) EXCEPT !.held = rhf.fieldIds],
          TsReset(Observe(ts), NoErrs, FALSE),
          Op("reset", "", FALSE, FALSE))
  /\ UNCHANGED <<counter, nsub>>
\* remove(indices) of the handle obtained before the reset: it works on the
\* current array and on the Map it captured
OldRemove ==
  \E indices \in SUBSET (0..(Len(Items) - 1)) :
    LET fa == FaRemove(FA(Items, rhf.held.map, counter), indices)
    IN /\ indices # {}
       /\ rhf.held.has
       /\ Room(1)
       /\ Step(RhfSetValue([Observe(rhf) EXCEPT !.held.map = fa.map],
                           ArrayPath, fa.arr, FALSE, TRUE, TRUE),
               ts, Op("old.remove", ArrayPath, TRUE, FALSE))
       /\ counter' = fa.ctr
       /\ UNCHANGED nsub
NextHandle ==
  \/ GetFieldArray \/ ArrAppend \/ ArrRemove \/ ResetHolding \/ OldRemove \/ Tick
SpecHandle == InitArray /\ [][NextHandle]_vars

\* C38: after reset() and a new getFieldArray('items'), a remove made
\* through the handle obtained before the reset leaves every surviving
\* element with the identifier getFieldArray reported for it before.
OldHandleFollowsElements ==
  [][(op'.name = "old.remove" /\ rhf.fieldIds.has /\ IdsComplete) =>
       \A i \in 1..Len(Items) : \A j \in 1..Len(Items') :
         Items[i] = Items'[j] => FieldIds[i] = FieldIds'[j]]_vars
\* the same for a remove made through a handle obtained after the reset
NewHandleFollowsElements ==
  [][(op'.name = "remove" /\ rhf.held.has /\ IdsComplete) =>
       \A i \in 1..Len(Items) : \A j \in 1..Len(Items') :
         Items[i] = Items'[j] => FieldIds[i] = FieldIds'[j]]_vars


\* ------------------------------------------------------------------ C39
\* setValue and getState().isDirty of rhfAdapter over a nested value tree:
\* defaultValues { a: { b: 1 }, b: 1 }, fields a, a.b and b
NestedDefaults ==
  Obj(InputRef(1),
      [k \in {"a", "b"} |->
         IF k = "a" THEN Obj(InputRef(2), [j \in {"b"} |-> Num(1)])
         ELSE Num(1)])
NestedPaths == {<<"a">>, <<"a", "b">>, <<"b">>}
\* what the application writes: numbers and null to a.b and b; to a the default
\* object itself or a new object
NestedVals(p) ==
  IF p = <<"a">>
  THEN {TreeGetByPath(NestedDefaults, p),
        Obj(InputRef(3), [j \in {"b"} |-> Num(1)]),
        Obj(InputRef(4), [j \in {"b"} |-> Num(2)])}
  ELSE {Num(1), Num(2), Num(3), Null}
InitNested ==
  /\ rhf = RhfCreateForm("onSubmit", FALSE)
  /\ ts = TsCreateForm("onSubmit", FALSE)
  /\ other = RhfCreateForm("onSubmit", FALSE)
  /\ counter = 0
  /\ op = Op("createForm", "", FALSE, FALSE)
  /\ nsub = 0
  /\ calc = [stage |-> "engine", values |-> NestedDefaults,
             isDirty |-> [p \in NestedPaths |-> FALSE]]
\* setValue(engine, path, value): the value is written with setByPath and
\* the field's isDirty becomes value !== getByPath(defaultValues, path)
NestedSetValue ==
  \E p \in NestedPaths : \E v \in NestedVals(p) :
    /\ calc.stage = "engine"
    /\ calc' = [calc EXCEPT
                  !.values = TreeSetByPath(calc.values, p, v),
                  !.isDirty[p] = ~StrictEq(v, TreeGetByPath(NestedDefaults, p))]
    /\ UNCHANGED <<rhf, ts, counter, nsub, other>>
    /\ op' = Op("setValue", "", FALSE, FALSE)
\* hasDirtyFields
NestedHasDirtyFields == \E p \in NestedPaths : calc.isDirty[p]
NextNested == NestedSetValue
SpecNested == InitNested /\ [][NextNested]_vars

\* C39: after any sequence of setValue calls on parent and nested paths,
\* getState().isDirty is false whenever the value tree is structurally
\* equal to the default values and true whenever it differs.
DirtyAgreesWithTree ==
  calc.stage = "engine" =>
    (NestedHasDirtyFields = ~StructEq(calc.values, NestedDefaults))
\* one half: a tree that differs from the defaults is reported dirty
DifferingTreeIsDirty ==
  (calc.stage = "engine" /\ ~StructEq(calc.values, NestedDefaults))
    => NestedHasDirtyFields


\* ------------------------------------------------------------------ C40
\* `return { values: ..., errors: ..., ... }`: an object literal is a new
\* object, whose reference differs from that of every object there is; the
\* only one compared with it is the snapshot the application got before
NewSnapshot(before, state) ==
  [ref |-> [id |-> IF before.id = 1 THEN 2 ELSE 1, made |-> "literal"],
   state |-> state]
\* the snapshots the application got last, one per backend
LastSnapshots ==
  IF calc.stage = "snapshot" THEN calc
  ELSE [stage |-> "snapshot", rhf |-> [ref |-> NoRef], ts |-> [ref |-> NoRef]]
\* getSnapshot of useUniversalForm: adapter.getState(engine), on each backend
GetSnapshot ==
  /\ rhf' = RhfCollect(RhfRead(Observe(rhf)))
  /\ ts' = TsRead(Observe(ts))
  /\ calc' = [stage |-> "snapshot",
              rhf |-> NewSnapshot(LastSnapshots.rhf.ref, RhfGetState(rhf)),
              ts |-> NewSnapshot(LastSnapshots.ts.ref,
                                 TsGetState(TsRead(ts)))]
  /\ op' = Op("getState", "", FALSE, FALSE)
  /\ UNCHANGED <<counter, nsub, other>>
NextSnapshot ==
  \/ SetValue({"name"}, {FALSE}) \/ Subscribe \/ GetSnapshot
SpecSnapshot == InitMeta /\ [][NextSnapshot]_vars

\* C40: of two getState calls with no call between them the second returns
\* the snapshot the first returned, the same reference, in both backends.
SnapshotStable ==
  [][(op.name = "getState" /\ op'.name = "getState") =>
       /\ calc'.rhf.ref = calc.rhf.ref
       /\ calc'.ts.ref = calc.ts.ref]_vars
\* the two calls return the same FormState by value
SnapshotSameValue ==
  [][(op.name = "getState" /\ op'.name = "getState") =>
       /\ calc'.rhf.state = calc.rhf.state
       /\ calc'.ts.state = calc.ts.state]_vars

====
